---- MODULE Spec2Model ----
(***************************************************************************)
(* Call session controller of the realtime-api server (src/server.js, the  *)
(* current version of the file, lines 349-1340): webhook signature         *)
(* verification, the accept handshake, the greeting trigger, the function  *)
(* stream with its reconnection, and the clean-up on terminal events.      *)
(***************************************************************************)
EXTENDS Integers, Sequences, FiniteSets, TLC

(***************************************************************************)
(* Bounds of the model.                                                    *)
(***************************************************************************)
\* What the environment does in one behaviour is bounded: the requests that
\* arrive, the messages and close frames the remote side sends on an open
\* function stream and the failures the network injects (failed or timed-out
\* connection attempts, errors and losses of established connections, accept
\* requests that fail) are at most MaxEnv together.
MaxEnv == 3
\* the function stream of a call, followed alone, is given one event more
MaxEnvStream == MaxEnv + 1
MaxItems == 2       \* space-separated items of a webhook-signature header

CallIds == {"c1"}

(***************************************************************************)
(* Strings.  JavaScript's undefined is a value no header or variable of    *)
(* the model holds as text.                                                *)
(***************************************************************************)
Undefined == "<undefined>"

Falsy(v) == v = Undefined \/ v = ""

\* String.prototype.split(sep) for a one-character separator: the pieces
\* of s between the occurrences of sep, at least one piece.
RECURSIVE SplitFrom(_, _, _, _)
SplitFrom(s, sep, start, i) ==
  IF i > Len(s) THEN << SubSeq(s, start, Len(s)) >>
  ELSE IF SubSeq(s, i, i) = sep
       THEN << SubSeq(s, start, i - 1) >> \o SplitFrom(s, sep, i + 1, i + 1)
       ELSE SplitFrom(s, sep, start, i + 1)

Split(s, sep) == SplitFrom(s, sep, 1, 1)

\* Array.prototype.join(sep)
RECURSIVE Join(_, _)
Join(parts, sep) ==
  IF Len(parts) = 0 THEN ""
  ELSE IF Len(parts) = 1 THEN parts[1]
  ELSE parts[1] \o sep \o Join(Tail(parts), sep)

RECURSIVE Flatten(_)
Flatten(ss) == IF Len(ss) = 0 THEN << >> ELSE Head(ss) \o Flatten(Tail(ss))

Range(f) == { f[i] : i \in DOMAIN f }

(***************************************************************************)
(* verifySignature                                                         *)
(***************************************************************************)
WebhookPrefix == "whsec_"

\* req.get(name): the header's value, undefined when the request has none
Get(req, name) ==
  IF name \in DOMAIN req.headers THEN req.headers[name] ELSE Undefined

\* process.env.OPENAI_WEBHOOK_SECRET?.replace(/^whsec_/, '')
StripPrefix(secretEnv) ==
  IF secretEnv = Undefined THEN Undefined
  ELSE IF Len(secretEnv) >= Len(WebhookPrefix)
          /\ SubSeq(secretEnv, 1, Len(WebhookPrefix)) = WebhookPrefix
       THEN SubSeq(secretEnv, Len(WebhookPrefix) + 1, Len(secretEnv))
       ELSE secretEnv

\* Buffer.from(secretString, 'base64') on the secrets of the model
Base64Decode(s) ==
  CASE s = "a2V5" -> "key"
    [] s = "b2xk" -> "old"
    [] OTHER -> "?" \o s

\* crypto.createHmac("sha256", secret).update(payload).digest("base64"):
\* a keyed hash without collisions; the digest is one token, free of the
\* separators of the signature header.
Hmac(secret, payload) == "mac[" \o secret \o "|" \o payload \o "]"

SigPayload(webhookId, timestamp, rawBody) ==
  webhookId \o "." \o timestamp \o "." \o rawBody

\* the no-break space U+00A0
NoBreakSpace == " "

\* the white space String.prototype.trim removes (WhiteSpace and
\* LineTerminator of ECMAScript): tab, line feed, vertical tab (U+000B), form
\* feed, carriage return, space, no-break space, ogham space mark (U+1680)
\* and the byte order mark (U+FEFF).  The rest of that set (U+2000 to U+200A,
\* U+2028, U+2029, U+202F, U+205F and U+3000) cannot be written in a string
\* of this module, so no string of the model holds one of them.
WhiteSpace ==
  { "\t", "\n", "", "\f", "\r", " ", NoBreakSpace, " ", "﻿" }

RECURSIVE TrimStart(_)
TrimStart(s) ==
  IF Len(s) > 0 /\ SubSeq(s, 1, 1) \in WhiteSpace
  THEN TrimStart(SubSeq(s, 2, Len(s))) ELSE s

RECURSIVE TrimEnd(_)
TrimEnd(s) ==
  IF Len(s) > 0 /\ SubSeq(s, Len(s), Len(s)) \in WhiteSpace
  THEN TrimEnd(SubSeq(s, 1, Len(s) - 1)) ELSE s

\* s.trim()
Trim(s) == TrimEnd(TrimStart(s))

\* signatureHeader.split(" ").flatMap(s => { parts = s.trim().split(",");
\*   return parts.length > 1 ? parts.slice(1) : parts })
SliceOne(parts) == IF Len(parts) > 1 THEN Tail(parts) ELSE parts

ParseSigsMutFirstOnly(signatureHeader) ==
  Flatten([ i \in DOMAIN Split(signatureHeader, " ") |->
              LET parts == Split(Trim(Split(signatureHeader, " ")[i]), ",")
              IN  IF Len(parts) > 1 THEN << parts[2] >> ELSE << >> ])

ParseSigs(signatureHeader) ==
  Flatten([ i \in DOMAIN Split(signatureHeader, " ") |->
              SliceOne(Split(Trim(Split(signatureHeader, " ")[i]), ",")) ])

\* every request that carries the three headers passes
verifySignatureMutNoCompare(req, secretEnv) ==
  ~ ( Falsy(Get(req, "webhook-signature")) \/ Falsy(Get(req, "webhook-timestamp"))
      \/ Falsy(Get(req, "webhook-id")) \/ Falsy(StripPrefix(secretEnv)) )

verifySignature(req, secretEnv) ==
  LET webhookId == Get(req, "webhook-id")
      timestamp == Get(req, "webhook-timestamp")
      signatureHeader == Get(req, "webhook-signature")
  IN  IF Falsy(signatureHeader) \/ Falsy(timestamp) \/ Falsy(webhookId)
      THEN FALSE
      ELSE LET secretString == StripPrefix(secretEnv)
           IN  IF Falsy(secretString) THEN FALSE
               ELSE LET expected == Hmac(Base64Decode(secretString),
                                         SigPayload(webhookId, timestamp, req.rawBody))
                    IN  expected \in Range(ParseSigs(signatureHeader))


(***************************************************************************)
(* State of the server process                                             *)
(***************************************************************************)
VARIABLES
  greetedCalls,            \* const greetedCalls = new Set()
  activeFunctionHandlers,  \* const activeFunctionHandlers = new Set()
  callStates,              \* const callStates = new Map(): callId -> state
  accepts,                 \* handleIncomingCall invocations awaiting acceptCall
                           \* (ended, history: a terminal event was handled for
                           \* the call while the invocation was waiting)
  greetings,               \* triggerGreeting invocations past the greeted check
  handlers,                \* handleFunctionCalls invocations (their closures)
  envCount,                \* webhook requests received and failures the network
                           \* has injected so far, together
  transfers,               \* transfer_call requests read off function streams
  resp,                    \* the request the last step handled, the HTTP response
                           \* to it and what handling it started; NoResp when the
                           \* last step handled no request
  sigIn, sigOut,           \* input and verdict of a lone verifySignature call
  xferIn, xferOut,         \* input and result of a lone transferCall call
  caches,                  \* lib/dataAccess.js: the four module-level caches
  configFiles,             \* the files of the config directory
  exited                   \* process.exit() has been called

cacheVars == << caches, configFiles >>

vars == << greetedCalls, activeFunctionHandlers, callStates, accepts, greetings,
           handlers, transfers, envCount, resp, sigIn, sigOut, xferIn, xferOut,
           cacheVars, exited >>

callVars == << greetedCalls, activeFunctionHandlers, callStates, accepts,
               greetings, handlers >>

(***************************************************************************)
(* Program constants                                                       *)
(***************************************************************************)
retries == 3                  \* acceptCall(callId, instructions, retries = 3)
maxReconnectAttempts == 3
NormalClosure == 1000         \* close code that ends the function stream
AbnormalClosure == 1006       \* stands for every close code other than 1000
BackoffBaseMs == 1000
BackoffCapMs == 5000
GREETING_DELAY_MS == 400
AcceptRetryDelayMs == 500     \* setTimeout(resolve, 500) between accept attempts

ServerSecret == "whsec_a2V5"  \* process.env.OPENAI_WEBHOOK_SECRET of the model
SenderKey == "key"            \* the key the event source signs with

TerminalTypes ==
  { "realtime.call.ended", "realtime.call.failed", "realtime.call.disconnected",
    "realtime.call.participant.disconnected" }

EventTypes ==
  { "realtime.call.incoming", "realtime.session.updated" } \cup TerminalTypes
  \cup { "realtime.response.done", "ping" }

ReqCalls == CallIds \cup { Undefined }

\* the call ids of the runs with two concurrent calls
CallIdsTwo == CallIds \cup { "c2" }

ReqCallsTwo == CallIdsTwo \cup { Undefined }

NoResp == [ kind |-> "none", call |-> Undefined, sig |-> "signed", status |-> 0,
            accept |-> << >>, did |-> {} ]

NoXferIn == [ key |-> Undefined ]

NoXferOut == [ done |-> FALSE ]

NoSigIn == [ id |-> Undefined, timestamp |-> Undefined, present |-> FALSE,
             items |-> << >>, rawBody |-> "", secret |-> Undefined ]

FreshCallState == [ messageCount |-> 0, interrupted |-> FALSE ]

Min(a, b) == IF a < b THEN a ELSE b

RECURSIVE Pow2(_)
Pow2(n) == IF n <= 0 THEN 1 ELSE 2 * Pow2(n - 1)

\* Math.min(1000 * Math.pow(2, reconnectAttempts - 1), 5000)
BackoffMs(reconnectAttempts) ==
  Min(BackoffBaseMs * Pow2(reconnectAttempts - 1), BackoffCapMs)

RemoveAt(s, k) == SubSeq(s, 1, k - 1) \o SubSeq(s, k + 1, Len(s))

\* a bag of pending timers, kept as the ascending sequence of their delays
\* (which of several pending timers fires first is left open)
RECURSIVE InsertSorted(_, _)
InsertSorted(s, x) ==
  IF Len(s) = 0 THEN << x >>
  ELSE IF x <= Head(s) THEN << x >> \o s
  ELSE << Head(s) >> \o InsertSorted(Tail(s), x)

(***************************************************************************)
(* lib/dataAccess.js getTransferNumber and lib/callTransfer.js             *)
(* transferCall.  A destination is [ truthy, name, number ]; NoEntry is    *)
(* the null that getTransferNumber returns.  The environment of one        *)
(* transferCall: the module's cache, the configuration file, and the       *)
(* answer the refer endpoint gives if it is asked.                         *)
(***************************************************************************)
NoEntry == [ truthy |-> FALSE, name |-> Undefined, number |-> Undefined ]

Entry(name, number) == [ truthy |-> TRUE, name |-> name, number |-> number ]

\* config/transfer-numbers.json
TransferNumbers ==
  ("sales" :> Entry("Sales Team", "+13095550101"))
  @@ ("john" :> Entry("John Doe", "+13095550102"))

\* {}
EmptyObject == [ k \in {} |-> NoEntry ]

\* the methods of Object.prototype: each is a function, whose name property
\* is its own name and which has no number property
PrototypeMethods ==
  { "toString", "toLocaleString", "valueOf", "hasOwnProperty", "isPrototypeOf",
    "propertyIsEnumerable", "__defineGetter__", "__defineSetter__",
    "__lookupGetter__", "__lookupSetter__" }

\* what the object JSON.parse returns inherits from Object.prototype:
\* constructor is the function Object (its name is "Object"), __proto__ is
\* the prototype itself, the rest are its methods
ObjectPrototype ==
  [ key \in PrototypeMethods \cup { "constructor", "__proto__" } |->
      IF key = "constructor" THEN Entry("Object", Undefined)
      ELSE IF key = "__proto__" THEN Entry(Undefined, Undefined)
      ELSE Entry(key, Undefined) ]

\* `${v}` and the conversion of a property key
ToStr(v) == IF v = Undefined THEN "undefined" ELSE v

Digits == << "0", "1", "2", "3", "4", "5", "6", "7", "8", "9" >>

\* `${n}` for a number n >= 0
RECURSIVE NatToStr(_)
NatToStr(n) ==
  IF n < 10 THEN Digits[n + 1] ELSE NatToStr(n \div 10) \o Digits[(n % 10) + 1]

\* obj[key]: an own property, else an inherited one, else undefined
GetProperty(obj, key) ==
  IF ToStr(key) \in DOMAIN obj THEN obj[ToStr(key)]
  ELSE IF ToStr(key) \in DOMAIN ObjectPrototype THEN ObjectPrototype[ToStr(key)]
  ELSE NoEntry

\* loadTransferNumbers: the cache if it is set, else the parsed file, else {}
loadTransferNumbers(cache, file) ==
  IF cache.set THEN cache.value
  ELSE IF file.readable THEN file.content
  ELSE EmptyObject

\* numbers[key] || null
getTransferNumber(key, cache, file) ==
  GetProperty(loadTransferNumbers(cache, file), key)

\* a response that counts every answer as a success
ResponseOkMutAny(status) == TRUE

\* response.ok
ResponseOk(status) == 200 <= status /\ status <= 299

\* `Refer failed (${response.status})${requestId ? ... : ''}: ${errorText}`
ReferFailedMessage(response) ==
  "Refer failed (" \o NatToStr(response.status) \o ")"
  \o (IF Falsy(response.requestId) THEN ""
      ELSE " [request-id=" \o response.requestId \o "]")
  \o ": " \o response.text

\* return { success: false, message: `Transfer destination "${transferKey}" not found` }
TransferNotFound(transferKey) ==
  [ success |-> FALSE,
    message |-> "Transfer destination \"" \o ToStr(transferKey) \o "\" not found",
    transferredTo |-> Undefined, posts |-> << >> ]

\* the rest of transferCall once the destination is found: one POST .../refer
\* and the result its answer gives
TransferReferred(transferInfo, response) ==
  LET targetUri == "sip:" \o ToStr(transferInfo.number)
                   \o "@apexaisolutions.pstn.ashburn.twilio.com"
      failure(message) ==
        [ success |-> FALSE, message |-> message, transferredTo |-> Undefined,
          posts |-> << targetUri >> ]
  IN  IF response.kind = "reject"
      THEN failure("Transfer error: " \o response.error)
      ELSE IF ~ ResponseOk(response.status)
      THEN IF response.kind = "badbody"
           THEN failure("Transfer error: " \o response.error)
           ELSE failure("Transfer error: " \o ReferFailedMessage(response))
      ELSE [ success |-> TRUE,
             message |-> "Call transferred to " \o ToStr(transferInfo.name),
             transferredTo |-> transferInfo.name,
             posts |-> << targetUri >> ]

\* transferCall(callId, transferKey) in environment env; posts lists the
\* target_uri of every POST .../refer it sent
transferCall(callId, transferKey, env) ==
  LET transferInfo == getTransferNumber(transferKey, env.cache, env.file)
  IN  IF ~ transferInfo.truthy
      THEN TransferNotFound(transferKey)
      ELSE TransferReferred(transferInfo, env.answer)


(***************************************************************************)
(* lib/dataAccess.js: the module-level caches and clearCache.  A cache is   *)
(* [ set, value ]: set is false for null (and for a falsy value), and the   *)
(* loader of a cache that is not set reads its file of the config           *)
(* directory.  A file is [ readable, content ].                             *)
(***************************************************************************)
ConfigNames == { "businessKnowledge", "contacts", "systemPrompt", "transferNumbers" }

\* the caches that hold a parsed JSON object
TableNames == { "contacts", "transferNumbers" }

\* let ...Cache = null
NoCache(name) ==
  [ set |-> FALSE, value |-> IF name \in TableNames THEN EmptyObject ELSE Undefined ]

\* if (cache): an object is truthy, a string unless it is empty
Truthy(name, content) == name \in TableNames \/ content # ""

\* what a loader assigns once its await readFile has returned (for a table,
\* JSON.parse too): the content; nothing when either throws
CacheAfterRead(name, cache, file) ==
  IF file.readable
  THEN [ set |-> Truthy(name, file.content), value |-> file.content ]
  ELSE cache

\* the cache `name` after a whole call of its loader (getBusinessKnowledge,
\* getSystemPrompt, loadContacts, loadTransferNumbers): kept if it is set
CacheAfterLoad(name, cache, file) ==
  IF cache.set THEN cache ELSE CacheAfterRead(name, cache, file)

\* clearCache that forgets the transfer destinations only
clearCacheMutTransferOnly(c) ==
  [ c EXCEPT !["transferNumbers"] = NoCache("transferNumbers") ]

\* clearCache(): the four caches are null again
clearCache(c) == [ n \in ConfigNames |-> NoCache(n) ]

\* the config directory at start-up
ConfigContent(name) ==
  CASE name = "transferNumbers" -> TransferNumbers
    [] name = "contacts" -> ("+13095550100" :> Entry("Jane Roe", "+13095550100"))
    [] name = "businessKnowledge" -> "business-info"
    [] OTHER -> "system-prompt"

ConfigAtStart ==
  [ n \in ConfigNames |-> [ readable |-> TRUE, content |-> ConfigContent(n) ] ]

\* what config/transfer-numbers.json can become while the server runs: the
\* table of the start, that table without its sales entry, or a file that
\* cannot be read or parsed
TransferNumbersFiles ==
  { [ readable |-> TRUE, content |-> TransferNumbers ],
    [ readable |-> TRUE, content |-> ("john" :> TransferNumbers["john"]) ],
    [ readable |-> FALSE, content |-> EmptyObject ] }

\* the readFile calls handleIncomingCall starts: buildInstructions calls the
\* four loaders and buildGreeting calls loadContacts once more, all in the
\* turn of the request; a loader that finds its cache unset starts a read
ReadsStarted(c) ==
  [ n \in ConfigNames |->
      IF c[n].set THEN 0 ELSE IF n = "contacts" THEN 2 ELSE 1 ]

\* no read is pending
NoReads == [ n \in ConfigNames |-> 0 ]

(***************************************************************************)
(* Initial state: the three collections are empty, nothing is in flight,   *)
(* nothing is cached.                                                      *)
(***************************************************************************)
InitServer ==
  /\ greetedCalls = {}
  /\ activeFunctionHandlers = {}
  /\ callStates = [ c \in {} |-> FreshCallState ]
  /\ accepts = << >>
  /\ greetings = << >>
  /\ handlers = << >>
  /\ transfers = << >>
  /\ resp = NoResp
  /\ caches = [ n \in ConfigNames |-> NoCache(n) ]
  /\ configFiles = ConfigAtStart
  /\ exited = FALSE

InitCalls ==
  /\ InitServer
  /\ envCount = 0

Init ==
  /\ InitCalls
  /\ sigIn = NoSigIn /\ sigOut = "none"
  /\ xferIn = NoXferIn /\ xferOut = NoXferOut



(***************************************************************************)
(* handleFunctionCalls: the closure of one invocation.                     *)
(*   call        callId                                                    *)
(*   attempts    reconnectAttempts                                         *)
(*   timers      delays of the pending setTimeout(connect, backoffMs)      *)
(*   cur         readiness of the socket the variable ws refers to         *)
(*   old         sockets created by earlier connect() calls and not yet    *)
(*               closed (their callbacks are still registered)             *)
(*   ct          the timer connectionTimeout refers to is pending          *)
(*   ctStale     pending connection timers the variable no longer refers to*)
(*   hb, hbStale the same for heartbeatInterval                            *)
(*   result      value the promise resolved with, "pending" before         *)
(*   ended, late history: a terminal event was handled for the call while  *)
(*               this invocation existed; what it did afterwards           *)
(* Socket readiness: "connecting", "open", "closing" (close() called       *)
(* locally: CLOSING, messages are still delivered), "peerNormal" and       *)
(* "peerAbnormal" (the close frame of the peer has been read, with code    *)
(* 1000 or with another code: CLOSING, nothing more is delivered, 'close'  *)
(* comes when the connection has ended), "errored" ('error' emitted,       *)
(* 'close' still to come), "closed".                                       *)
(***************************************************************************)
LiveStates ==
  { "connecting", "open", "closing", "peerNormal", "peerAbnormal", "errored" }

\* the readiness of a socket whose peer has sent a close frame with `code`
PeerClosing(code) == IF code = 1000 THEN "peerNormal" ELSE "peerAbnormal"

NoOld == [ s \in LiveStates |-> 0 ]

\* if (reconnectAttempts < maxReconnectAttempts)
CanReconnect(reconnectAttempts) == reconnectAttempts < maxReconnectAttempts

\* resolve(v): the first call settles the promise, later calls do nothing
Resolve(hr, v) == IF hr.result = "pending" THEN [ hr EXCEPT !.result = v ] ELSE hr

\* the tail of both failure callbacks: schedule a reconnection or give up
ScheduleOrGiveUp(hr) ==
  IF CanReconnect(hr.attempts)
  THEN [ hr EXCEPT !.attempts = @ + 1,
                   !.timers = InsertSorted(@, BackoffMs(hr.attempts + 1)) ]
  ELSE Resolve(hr, "false")

\* const connect = () => { ws = new WebSocket(...); connectionTimeout = setTimeout(...) }
connect(hr) ==
  [ hr EXCEPT !.old = IF hr.cur \in LiveStates
                      THEN [ @ EXCEPT ![hr.cur] = @ + 1 ] ELSE @,
              !.cur = "connecting",
              !.ctStale = @ + (IF hr.ct THEN 1 ELSE 0),
              !.ct = TRUE,
              !.late = IF hr.ended THEN @ \cup { "connect" } ELSE @ ]

\* an open callback that leaves the reconnect counter as it is
onOpenMutKeepCount(hr) ==
  [ hr EXCEPT !.ct = FALSE,
              !.hbStale = @ + (IF hr.hb THEN 1 ELSE 0),
              !.hb = TRUE ]

\* ws.on("open")
onOpen(hr) ==
  [ hr EXCEPT !.ct = FALSE,
              !.attempts = 0,
              !.hbStale = @ + (IF hr.hb THEN 1 ELSE 0),
              !.hb = TRUE ]

\* ws.on("error")
onError(hr) == ScheduleOrGiveUp([ hr EXCEPT !.ct = FALSE, !.hb = FALSE ])

\* ws.on("close")
onClose(hr, code) ==
  LET cleared == [ hr EXCEPT !.ct = FALSE, !.hb = FALSE ]
  IN  IF code = NormalClosure THEN Resolve(cleared, "true")
      ELSE ScheduleOrGiveUp(cleared)

\* a handler whose first connection is already open when it is created
NewHandlerMutAwaitOpen(callId) ==
  onOpen([ call |-> callId, attempts |-> 0, timers |-> << >>, cur |-> "open",
           old |-> NoOld, ct |-> TRUE, ctStale |-> 0, hb |-> FALSE,
           hbStale |-> 0, result |-> "pending", ended |-> FALSE,
           late |-> {} ])

NewHandler(callId) ==
  connect([ call |-> callId, attempts |-> 0, timers |-> << >>, cur |-> "none",
            old |-> NoOld, ct |-> FALSE, ctStale |-> 0, hb |-> FALSE,
            hbStale |-> 0, result |-> "pending", ended |-> FALSE,
            late |-> {} ])

\* the socket `which` ("cur" or "old") of handler record hr is in state st
HasSock(hr, which, st) ==
  IF which = "cur" THEN hr.cur = st ELSE hr.old[st] > 0

\* that socket moves to state `to`
MoveSock(hr, which, st, to) ==
  IF which = "cur" THEN [ hr EXCEPT !.cur = to ]
  ELSE [ hr EXCEPT !.old = [ s \in LiveStates |->
                               IF s = st /\ s = to THEN hr.old[s]
                               ELSE IF s = st THEN hr.old[s] - 1
                               ELSE IF s = to THEN hr.old[s] + 1
                               ELSE hr.old[s] ] ]

\* sockets of a handler record that are connecting or open, and open
LiveConnections(hr) ==
  (IF hr.cur \in { "connecting", "open" } THEN 1 ELSE 0)
  + hr.old["connecting"] + hr.old["open"]

OpenConnections(hr) == (IF hr.cur = "open" THEN 1 ELSE 0) + hr.old["open"]

\* a finally that clears the guard of every call
GuardAfterMutClearAll(before, after) ==
  IF before.result = "pending" /\ after.result # "pending"
  THEN {}
  ELSE activeFunctionHandlers

\* .finally(() => activeFunctionHandlers.delete(callId)) runs when the
\* promise settles, in the same turn as the resolve() that settles it
GuardAfter(before, after) ==
  IF before.result = "pending" /\ after.result # "pending"
  THEN activeFunctionHandlers \ { before.call }
  ELSE activeFunctionHandlers

\* handler h becomes record hr
SetHandler(h, hr) ==
  /\ handlers' = [ handlers EXCEPT ![h] = hr ]
  /\ activeFunctionHandlers' = GuardAfter(handlers[h], hr)


(***************************************************************************)
(* Callbacks of the function-stream sockets.  A socket that fails before   *)
(* it opens emits 'error' and then 'close' (1006) in the same turn; an     *)
(* open socket that fails emits 'error' first and 'close' in a later turn. *)
(***************************************************************************)
Whiches == { "cur", "old" }

\* the network injects one more failure, or the remote side sends one more
\* frame
Fault == envCount < MaxEnv /\ envCount' = envCount + 1

\* ws.on("open") of a connecting socket
FnOpen(h, which) ==
  /\ ~ exited
  /\ HasSock(handlers[h], which, "connecting")
  /\ SetHandler(h, onOpen(MoveSock(handlers[h], which, "connecting", "open")))
  /\ callStates' = [ c \in DOMAIN callStates \cup { handlers[h].call } |->
                       IF c = handlers[h].call THEN FreshCallState ELSE callStates[c] ]
  /\ resp' = NoResp
  /\ UNCHANGED << greetedCalls, accepts, greetings, envCount, transfers, sigIn, sigOut, xferIn, xferOut, exited, cacheVars >>

\* the connection attempt fails: ws.on("error"), then ws.on("close") with 1006
FnConnFail(h, which) ==
  /\ ~ exited
  /\ HasSock(handlers[h], which, "connecting")
  /\ SetHandler(h, onClose(onError(MoveSock(handlers[h], which, "connecting", "closed")),
                           AbnormalClosure))
  /\ resp' = NoResp
  /\ UNCHANGED << greetedCalls, callStates, accepts, greetings, transfers, sigIn, sigOut, xferIn, xferOut, exited, cacheVars >>
  /\ Fault

\* ws.on("error") of an established connection
FnError(h, which, st) ==
  /\ ~ exited
  /\ st \in { "open", "closing" }
  /\ HasSock(handlers[h], which, st)
  /\ SetHandler(h, onError(MoveSock(handlers[h], which, st, "errored")))
  /\ resp' = NoResp
  /\ UNCHANGED << greetedCalls, callStates, accepts, greetings, transfers, sigIn, sigOut, xferIn, xferOut, exited, cacheVars >>
  /\ Fault

\* the close frame of the peer is read off an established connection: the
\* socket is CLOSING from then on (the frame is answered, or the closing
\* handshake the server began is complete); no callback of the handler runs
FnCloseFrame(h, which, st, code) ==
  /\ ~ exited
  /\ st \in { "open", "closing" }
  /\ code \in { NormalClosure, AbnormalClosure }
  /\ HasSock(handlers[h], which, st)
  /\ SetHandler(h, MoveSock(handlers[h], which, st, PeerClosing(code)))
  /\ resp' = NoResp
  /\ UNCHANGED << greetedCalls, callStates, accepts, greetings, transfers, sigIn, sigOut, xferIn, xferOut, exited, cacheVars >>
  /\ IF st = "open" THEN Fault ELSE UNCHANGED envCount

\* ws.on("close"), once the connection has ended: with the code of the close
\* frame the peer sent; with 1006 when the connection ended without one or
\* after an error
FnClose(h, which, st, code) ==
  /\ ~ exited
  /\ \/ st \in { "open", "closing", "errored" } /\ code = AbnormalClosure
     \/ st = PeerClosing(code) /\ code \in { NormalClosure, AbnormalClosure }
  /\ HasSock(handlers[h], which, st)
  /\ SetHandler(h, onClose(MoveSock(handlers[h], which, st, "closed"), code))
  /\ resp' = NoResp
  /\ UNCHANGED << greetedCalls, callStates, accepts, greetings, transfers, sigIn, sigOut, xferIn, xferOut, exited, cacheVars >>
  /\ IF st = "open" THEN Fault ELSE UNCHANGED envCount

\* the connection timer's callback: ws?.close() on the socket ws refers to
\* now.  Closing a connecting socket aborts the handshake, which emits
\* 'error' and 'close' (1006); closing an open one starts the closing
\* handshake; closing any other does nothing.
closeCurrent(hr) ==
  IF hr.cur = "connecting"
  THEN onClose(onError([ hr EXCEPT !.cur = "closed" ]), AbnormalClosure)
  ELSE IF hr.cur = "open" THEN [ hr EXCEPT !.cur = "closing" ]
  ELSE hr

FnConnTimeout(h, stale) ==
  /\ ~ exited
  /\ IF stale THEN handlers[h].ctStale > 0 ELSE handlers[h].ct
  /\ SetHandler(h, closeCurrent(IF stale
                                THEN [ handlers[h] EXCEPT !.ctStale = @ - 1 ]
                                ELSE [ handlers[h] EXCEPT !.ct = FALSE ]))
  /\ resp' = NoResp
  /\ UNCHANGED << greetedCalls, callStates, accepts, greetings, transfers, sigIn, sigOut, xferIn, xferOut, exited, cacheVars >>
  /\ Fault

\* a pending setTimeout(connect, backoffMs) fires
FnReconnect(h, k) ==
  /\ ~ exited
  /\ k \in DOMAIN handlers[h].timers
  /\ SetHandler(h, connect([ handlers[h] EXCEPT !.timers = RemoveAt(@, k) ]))
  /\ transfers' = [ t \in DOMAIN transfers |->
                      IF transfers[t].h = h
                      THEN [ transfers[t] EXCEPT !.stale = TRUE ] ELSE transfers[t] ]
  /\ resp' = NoResp
  /\ UNCHANGED << greetedCalls, callStates, accepts, greetings, envCount, sigIn,
                  sigOut, xferIn, xferOut, exited, cacheVars >>

\* a heartbeat interval ticks: if (ws.readyState === WebSocket.OPEN) ws.ping()
FnHeartbeat(h) ==
  /\ ~ exited
  /\ handlers[h].hb \/ handlers[h].hbStale > 0
  /\ handlers[h].cur = "open"
  /\ SetHandler(h, [ handlers[h] EXCEPT
                       !.late = IF handlers[h].ended THEN @ \cup { "ping" } ELSE @ ])
  /\ resp' = NoResp
  /\ UNCHANGED << greetedCalls, callStates, accepts, greetings, envCount, transfers, sigIn,
                  sigOut, xferIn, xferOut, exited, cacheVars >>


(***************************************************************************)
(* ws.on("message") of a function-stream socket, and the transfer it       *)
(* awaits.  One record per transfer_call request read off a socket:        *)
(*   h       the handleFunctionCalls invocation whose socket read it       *)
(*   req     event.call_id, the correlation id of the request              *)
(*   dest    args.destination                                              *)
(*   stage   "reading" while loadTransferNumbers awaits readFile,          *)
(*           "running" while the refer request is unanswered, then "done"; *)
(*           "failed" when JSON.parse of the arguments threw                *)
(*   info    transferInfo, NoEntry before the lookup                       *)
(*   posts   refer requests the transfer sent                              *)
(*   wrote   messages the handler sent on ws after the transfer returned   *)
(*   stale   the socket that read the request is no longer the one the     *)
(*           variable ws refers to (connect() has replaced it)             *)
(*   copies  on the first record of a request: the further sockets of the  *)
(*           call the same request is still on its way to                  *)
(***************************************************************************)
Malformed == "<malformed>"

\* the messages a function stream delivers: speech started, response done,
\* an event of a type the handler has no branch for, a function call
\* (transfer_call with a destination or, numbered f0, with arguments that are
\* no JSON, or another function), and data that is no JSON
MessageEvents ==
  { [ type |-> ty, name |-> Undefined, call_id |-> Undefined, dest |-> Undefined ] :
      ty \in { "input_audio_buffer.speech_started", "response.done",
               "session.created", Malformed } }
  \cup { [ type |-> "response.function_call_arguments.done", name |-> "transfer_call",
           call_id |-> "f1", dest |-> d ] : d \in { "sales", "billing" } }
  \cup { [ type |-> "response.function_call_arguments.done", name |-> "transfer_call",
           call_id |-> "f0", dest |-> Malformed ] }
  \cup { [ type |-> "response.function_call_arguments.done", name |-> "get_weather",
           call_id |-> "f1", dest |-> Undefined ] }

\* the answers of the refer endpoint to the transfers of a call
ReferAnswers ==
  { [ kind |-> "response", status |-> 200, requestId |-> Undefined, text |-> "",
      error |-> "" ],
    [ kind |-> "response", status |-> 500, requestId |-> Undefined,
      text |-> "{\"error\":\"busy\"}\n", error |-> "" ] }

\* JSON.stringify of a string (QuoteJSONString): the quotation mark, the
\* reverse solidus and the control characters U+0000 to U+001F are written
\* as escapes, every other character as it is.  (U+0000 and a lone
\* surrogate, which are written as escapes too, are in no string of the
\* model.)
JsonChar(c) ==
  CASE c = "" -> "\\u0001"    \* U+0001
    [] c = "" -> "\\u0002"    \* U+0002
    [] c = "" -> "\\u0003"    \* U+0003
    [] c = "" -> "\\u0004"    \* U+0004
    [] c = "" -> "\\u0005"    \* U+0005
    [] c = "" -> "\\u0006"    \* U+0006
    [] c = "" -> "\\u0007"    \* U+0007
    [] c = "" -> "\\b"    \* U+0008
    [] c = "\t" -> "\\t"    \* U+0009
    [] c = "\n" -> "\\n"    \* U+000A
    [] c = "" -> "\\u000b"    \* U+000B
    [] c = "\f" -> "\\f"    \* U+000C
    [] c = "\r" -> "\\r"    \* U+000D
    [] c = "" -> "\\u000e"    \* U+000E
    [] c = "" -> "\\u000f"    \* U+000F
    [] c = "" -> "\\u0010"    \* U+0010
    [] c = "" -> "\\u0011"    \* U+0011
    [] c = "" -> "\\u0012"    \* U+0012
    [] c = "" -> "\\u0013"    \* U+0013
    [] c = "" -> "\\u0014"    \* U+0014
    [] c = "" -> "\\u0015"    \* U+0015
    [] c = "" -> "\\u0016"    \* U+0016
    [] c = "" -> "\\u0017"    \* U+0017
    [] c = "" -> "\\u0018"    \* U+0018
    [] c = "" -> "\\u0019"    \* U+0019
    [] c = "" -> "\\u001a"    \* U+001A
    [] c = "" -> "\\u001b"    \* U+001B
    [] c = "" -> "\\u001c"    \* U+001C
    [] c = "" -> "\\u001d"    \* U+001D
    [] c = "" -> "\\u001e"    \* U+001E
    [] c = "" -> "\\u001f"    \* U+001F
    [] c = "\"" -> "\\\""
    [] c = "\\" -> "\\\\"
    [] OTHER -> c

RECURSIVE JsonEscape(_)
JsonEscape(str) ==
  IF Len(str) = 0 THEN ""
  ELSE JsonChar(SubSeq(str, 1, 1)) \o JsonEscape(SubSeq(str, 2, Len(str)))

JsonString(str) == "\"" \o JsonEscape(str) \o "\""

\* JSON.stringify(result): a property that is undefined is left out
JsonStringify(result) ==
  "{\"success\":" \o (IF result.success THEN "true" ELSE "false")
  \o ",\"message\":" \o JsonString(result.message)
  \o (IF result.transferredTo = Undefined THEN ""
      ELSE ",\"transferredTo\":" \o JsonString(result.transferredTo))
  \o "}"

\* a message without an item
NoItem == [ type |-> Undefined, call_id |-> Undefined, output |-> Undefined ]

FunctionOutput(functionCallId, result) ==
  [ type |-> "conversation.item.create",
    item |-> [ type |-> "function_call_output", call_id |-> functionCallId,
               output |-> JsonStringify(result) ] ]

ResponseCreate == [ type |-> "response.create", item |-> NoItem ]

\* a dispatcher that asks for the continuation before it reports the result
DispatchMutContinueFirst(functionCallId, result) ==
  << ResponseCreate, FunctionOutput(functionCallId, result) >>

\* the two ws.send calls that follow the transfer
Dispatch(functionCallId, result) ==
  << FunctionOutput(functionCallId, result), ResponseCreate >>

\* ws.send(data) passes data on when the socket is open; on a connecting
\* socket it throws, on a closing or closed one the data is dropped or it
\* throws: nothing is written and the second send is not reached or dropped
SendAccepted(st) == st = "open"

\* a parser that accepts every argument string
ParsedArgsMutLenient(ev) == TRUE

\* JSON.parse(argsJson) returns (it throws on arguments that are no JSON)
ParsedArgs(ev) == ev.dest # Malformed

IsTransferRequest(ev) ==
  ev.type = "response.function_call_arguments.done" /\ ev.name = "transfer_call"

\* handlers of callId that have an open or closing socket
Listening(callId) ==
  { h \in DOMAIN handlers :
      /\ handlers[h].call = callId
      /\ \E which \in { "cur", "old" }, st \in { "open", "closing" } :
           HasSock(handlers[h], which, st) }

\* the transfer_call requests socket `which` of handler h has read
ReadsOf(h, which, req) ==
  { t \in DOMAIN transfers :
      /\ transfers[t].h = h /\ transfers[t].req = req
      /\ transfers[t].stale = (which = "old") }

\* the records of the request of ev on the call of handler h
RecordsOf(h, ev) ==
  { t \in DOMAIN transfers :
      /\ handlers[transfers[t].h].call = handlers[h].call
      /\ transfers[t].req = ev.call_id }

\* the AI has issued the request of ev on the call of handler h: a socket of
\* the call has read it
Issued(h, ev) == RecordsOf(h, ev) # {}

\* the sockets of the handlers 1 .. n of callId that have their message
\* listener and may be given a message: those that deliver messages, and
\* those still connecting, whose connection the remote side may have
\* accepted and written to before the socket has read the answer
RECURSIVE ListeningSockets(_, _)
ListeningSockets(callId, n) ==
  IF n = 0 THEN 0
  ELSE ListeningSockets(callId, n - 1)
       + (IF handlers[n].call # callId THEN 0
          ELSE (IF handlers[n].cur \in { "connecting", "open", "closing" } THEN 1 ELSE 0)
               + handlers[n].old["connecting"] + handlers[n].old["open"]
               + handlers[n].old["closing"])

\* what the remote side sends: an event goes to the connections of the call
\* it holds when it sends it (those of the sockets that are connecting, open
\* or closing), a request carries one destination, and no more copies of it
\* are read than there were such sockets; the socket ws refers to reads it
\* once.  Which of the earlier sockets a copy is on its
\* way to is not recorded: each of them that still delivers messages may be
\* the one that reads it, however late.
Deliverable(h, which, ev) ==
  IsTransferRequest(ev) =>
    /\ \A t \in RecordsOf(h, ev) : transfers[t].dest = ev.dest
    /\ Issued(h, ev) => \E t \in RecordsOf(h, ev) : transfers[t].copies > 0
    /\ which = "cur" => ReadsOf(h, "cur", ev.call_id) = {}

\* a transfer whose destination has been looked up: not found, transferCall
\* returns and the handler writes the failure on ws, whose readiness is cur
\* by then; found, POST .../refer is sent
Lookup(tr, numbers, cur) ==
  LET transferInfo == GetProperty(numbers, tr.dest)
  IN  IF ~ transferInfo.truthy
      THEN [ tr EXCEPT !.stage = "done",
                       !.wrote = IF SendAccepted(cur)
                                 THEN Dispatch(tr.req, TransferNotFound(tr.dest))
                                 ELSE << >> ]
      ELSE [ tr EXCEPT !.stage = "running", !.info = transferInfo, !.posts = 1 ]

\* if (name === "transfer_call"): JSON.parse(argsJson), then transferCall up
\* to its first await that leaves the turn; cur is the readiness of ws when
\* the turn's continuations run
StartTransfer(h, which, ev, cur) ==
  LET tr == [ h |-> h, req |-> ev.call_id, dest |-> ev.dest, stage |-> "reading",
              info |-> NoEntry, posts |-> 0, wrote |-> << >>,
              stale |-> (which = "old"),
              copies |-> IF Issued(h, ev) THEN 0
                         ELSE ListeningSockets(handlers[h].call, Len(handlers)) - 1 ]
  IN  IF ~ ParsedArgs(ev) THEN [ tr EXCEPT !.stage = "failed" ]
      ELSE IF caches["transferNumbers"].set
      THEN Lookup(tr, caches["transferNumbers"].value, cur)
      ELSE tr

\* the readiness of a socket in state st once the chunk that held a message
\* has been read to its end: st when nothing else was in the chunk, CLOSING
\* when the close frame of the peer followed the message, errored when a
\* frame that cannot be read followed it ('error' is emitted)
AfterChunk(st) == { st, "peerNormal", "peerAbnormal", "errored" }

\* transferCall returns within the turn that reads ev: the destinations are
\* cached and hold no such destination
AnsweredInTurn(ev) ==
  /\ IsTransferRequest(ev) /\ ParsedArgs(ev)
  /\ caches["transferNumbers"].set
  /\ ~ GetProperty(caches["transferNumbers"].value, ev.dest).truthy

\* one socket of a function stream emits 'message': the listener runs up to
\* its await of transferCall; the continuations of the turn (the lookup in
\* the cached destinations, the POST or the reply) run when the chunk that
\* held the message has been read to its end.  A close frame or a frame that
\* cannot be read in the same chunk is read before they run (after is the
\* readiness of the socket by then, and the error callback has run); it is
\* part of this step where that makes a difference, which is when the reply
\* is written in the turn on the socket that read it, and a step of its own
\* (FnCloseFrame, FnError) otherwise.  The first socket to read a request stands for the remote side
\* issuing it; the reads of the copies it sent to the other sockets of the
\* call are no further events of the environment.
FnMessage(h, which, st, ev, after) ==
  /\ ~ exited
  /\ st \in { "open", "closing" }
  /\ HasSock(handlers[h], which, st)
  /\ Deliverable(h, which, ev)
  /\ after \in AfterChunk(st)
  /\ after # st => AnsweredInTurn(ev) /\ which = "cur" /\ st = "open"
  /\ LET cost == (IF IsTransferRequest(ev) /\ Issued(h, ev) THEN 0 ELSE 1)
                 + (IF after = st THEN 0 ELSE 1)
     IN  envCount + cost <= MaxEnv /\ envCount' = envCount + cost
  /\ SetHandler(h, IF after = st THEN handlers[h]
                   ELSE IF after = "errored"
                   THEN onError(MoveSock(handlers[h], which, st, "errored"))
                   ELSE MoveSock(handlers[h], which, st, after))
  /\ callStates' =
       IF ev.type # Malformed /\ handlers[h].call \in DOMAIN callStates
       THEN [ callStates EXCEPT ![handlers[h].call] =
                [ messageCount |-> @.messageCount + 1,
                  interrupted |-> @.interrupted
                                  \/ ev.type = "input_audio_buffer.speech_started" ] ]
       ELSE callStates
  /\ transfers' =
       IF IsTransferRequest(ev)
       THEN Append([ t \in DOMAIN transfers |->
                       IF t \in RecordsOf(h, ev) /\ transfers[t].copies > 0
                       THEN [ transfers[t] EXCEPT !.copies = @ - 1 ]
                       ELSE transfers[t] ],
                   StartTransfer(h, which, ev, handlers'[h].cur))
       ELSE transfers
  /\ resp' = NoResp
  /\ UNCHANGED << greetedCalls, accepts, greetings, sigIn, sigOut, xferIn, xferOut,
                  exited, cacheVars >>

\* the readFile of a transfer's loadTransferNumbers returns: the table is
\* cached if it was read, and the destination is looked up in what was read
TransferLoaded(t) ==
  /\ ~ exited
  /\ transfers[t].stage = "reading"
  /\ caches' = [ caches EXCEPT !["transferNumbers"] =
                    CacheAfterRead("transferNumbers", @, configFiles["transferNumbers"]) ]
  /\ transfers' = [ transfers EXCEPT ![t] =
                       Lookup(@, loadTransferNumbers(NoCache("transferNumbers"),
                                                     configFiles["transferNumbers"]),
                              handlers[@.h].cur) ]
  /\ resp' = NoResp
  /\ UNCHANGED << callVars, envCount, sigIn, sigOut, xferIn, xferOut, exited, configFiles >>

\* the refer request is answered and transferCall returns: the handler sends
\* the result and the continuation on the socket the variable ws refers to
\* by then
TransferDone(t, answer) ==
  /\ ~ exited
  /\ transfers[t].stage = "running"
  /\ LET tr == transfers[t]
         result == TransferReferred(tr.info, answer)
     IN  transfers' = [ transfers EXCEPT ![t] =
                          [ tr EXCEPT !.stage = "done",
                                      !.wrote = IF SendAccepted(handlers[tr.h].cur)
                                                THEN Dispatch(tr.req, result)
                                                ELSE << >> ] ]
  /\ resp' = NoResp
  /\ UNCHANGED << callVars, envCount, sigIn, sigOut, xferIn, xferOut, exited, cacheVars >>


(***************************************************************************)
(* triggerGreeting: one record per invocation that passed the greeted      *)
(* check.                                                                  *)
(*   call        callId                                                    *)
(*   sock        "none" during the greeting delay, then the readiness of   *)
(*               the greeting socket                                       *)
(*   timeout     the 10 s connection timer is pending                      *)
(*   closeTimer  the 1 s setTimeout(() => ws.close()) is pending           *)
(*   result      value the promise resolved with, "pending" before         *)
(*   sent        greeting instructions sent on the socket                  *)
(*   live        history: no terminal event was handled for the call since *)
(*               this invocation passed the check                          *)
(***************************************************************************)
NewGreeting(callId) ==
  [ call |-> callId, sock |-> "none", timeout |-> FALSE, closeTimer |-> FALSE,
    result |-> "pending", sent |-> 0, live |-> TRUE ]

GreetResolve(gr, v) ==
  IF gr.result = "pending" THEN [ gr EXCEPT !.result = v ] ELSE gr

\* a greeted check that never finds the flag set
AlreadyGreetedMutNever(callId) == FALSE

\* a greeted check that also skips the greeting of a call whose function
\* stream is running
AlreadyGreetedMutGuarded(callId) ==
  callId \in greetedCalls \/ callId \in activeFunctionHandlers

\* if (greetedCalls.has(callId)) return true
AlreadyGreeted(callId) == callId \in greetedCalls

\* the synchronous part of triggerGreeting, up to the await of the delay
TriggerGreeting(callId) ==
  IF Falsy(callId) \/ AlreadyGreeted(callId)
  THEN UNCHANGED << greetedCalls, greetings >>
  ELSE /\ greetedCalls' = greetedCalls \cup { callId }
       /\ greetings' = Append(greetings, NewGreeting(callId))

\* the delay has passed: new WebSocket(...), connectionTimeout = setTimeout(...)
GreetConnect(g) ==
  /\ ~ exited
  /\ greetings[g].sock = "none"
  /\ greetings' = [ greetings EXCEPT ![g].sock = "connecting", ![g].timeout = TRUE ]
  /\ resp' = NoResp
  /\ UNCHANGED << greetedCalls, activeFunctionHandlers, callStates, accepts,
                  handlers, envCount, transfers, sigIn, sigOut, xferIn, xferOut, exited, cacheVars >>

\* ws.on("open"): send the greeting, arm the close timer, resolve(true)
GreetOpen(g) ==
  /\ ~ exited
  /\ greetings[g].sock = "connecting"
  /\ greetings' = [ greetings EXCEPT ![g] =
                      GreetResolve([ @ EXCEPT !.sock = "open", !.timeout = FALSE,
                                              !.sent = @ + 1, !.closeTimer = TRUE ],
                                   "true") ]
  /\ resp' = NoResp
  /\ UNCHANGED << greetedCalls, activeFunctionHandlers, callStates, accepts,
                  handlers, envCount, transfers, sigIn, sigOut, xferIn, xferOut, exited, cacheVars >>

\* an error callback that opens the greeting connection again
greetOnErrorMutReconnect(gr) ==
  [ gr EXCEPT !.sock = "connecting", !.timeout = TRUE ]

\* ws.on("error") of the greeting socket
greetOnError(gr) == GreetResolve([ gr EXCEPT !.timeout = FALSE ], "false")

\* the connection timer fires (the socket is still connecting): ws.close()
\* aborts the handshake, greetedCalls.delete(callId), resolve(false); the
\* abort emits 'error' and 'close' in the same turn
GreetTimeout(g) ==
  /\ ~ exited
  /\ greetings[g].timeout
  /\ greetedCalls' = greetedCalls \ { greetings[g].call }
  /\ greetings' = [ greetings EXCEPT ![g] =
                      greetOnError(GreetResolve([ @ EXCEPT !.sock = "closed",
                                                           !.timeout = FALSE ],
                                                "false")) ]
  /\ resp' = NoResp
  /\ UNCHANGED << activeFunctionHandlers, callStates, accepts, handlers, transfers, sigIn,
                  sigOut, xferIn, xferOut, exited, cacheVars >>
  /\ Fault

\* the connection attempt fails: ws.on("error") and ws.on("close")
GreetConnFail(g) ==
  /\ ~ exited
  /\ greetings[g].sock = "connecting"
  /\ greetedCalls' = greetedCalls \ { greetings[g].call }
  /\ greetings' = [ greetings EXCEPT ![g] = greetOnError([ @ EXCEPT !.sock = "closed" ]) ]
  /\ resp' = NoResp
  /\ UNCHANGED << activeFunctionHandlers, callStates, accepts, handlers, transfers, sigIn,
                  sigOut, xferIn, xferOut, exited, cacheVars >>
  /\ Fault

\* ws.on("error") of an established greeting connection
GreetError(g) ==
  /\ ~ exited
  /\ greetings[g].sock \in { "open", "closing" }
  /\ greetedCalls' = greetedCalls \ { greetings[g].call }
  /\ greetings' = [ greetings EXCEPT ![g] = greetOnError([ @ EXCEPT !.sock = "errored" ]) ]
  /\ resp' = NoResp
  /\ UNCHANGED << activeFunctionHandlers, callStates, accepts, handlers, transfers, sigIn,
                  sigOut, xferIn, xferOut, exited, cacheVars >>
  /\ Fault

\* setTimeout(() => ws.close(), 1000) fires
GreetCloseTimer(g) ==
  /\ ~ exited
  /\ greetings[g].closeTimer
  /\ greetings' = [ greetings EXCEPT ![g].closeTimer = FALSE,
                                     ![g].sock = IF @ = "open" THEN "closing" ELSE @ ]
  /\ resp' = NoResp
  /\ UNCHANGED << greetedCalls, activeFunctionHandlers, callStates, accepts,
                  handlers, envCount, transfers, sigIn, sigOut, xferIn, xferOut, exited, cacheVars >>

\* the peer's close frame arrives on the open greeting socket: the socket is
\* CLOSING until the connection has ended, and no callback of triggerGreeting
\* runs; the close timer stays armed
GreetCloseFrame(g) ==
  /\ ~ exited
  /\ greetings[g].sock = "open"
  /\ greetings' = [ greetings EXCEPT ![g].sock = "closing" ]
  /\ resp' = NoResp
  /\ UNCHANGED << greetedCalls, activeFunctionHandlers, callStates, accepts,
                  handlers, envCount, transfers, sigIn, sigOut, xferIn, xferOut, exited, cacheVars >>

\* ws.on("close") of an established greeting connection: the connection has
\* ended, after a close frame or an error, or without either when it is lost
GreetClose(g) ==
  /\ ~ exited
  /\ greetings[g].sock \in { "open", "closing", "errored" }
  /\ greetings' = [ greetings EXCEPT ![g].sock = "closed", ![g].timeout = FALSE ]
  /\ resp' = NoResp
  /\ UNCHANGED << greetedCalls, activeFunctionHandlers, callStates, accepts,
                  handlers, envCount, transfers, sigIn, sigOut, xferIn, xferOut, exited, cacheVars >>

(***************************************************************************)
(* startFunctionHandler                                                    *)
(***************************************************************************)
\* if (activeFunctionHandlers.has(callId)) return
HandlerActive(callId) == callId \in activeFunctionHandlers

\* handleFunctionCalls(callId) runs its executor at once: the first connect()
\* a guard that remembers the latest call only
StartFunctionHandlerMutSingleGuard(callId) ==
  IF Falsy(callId) \/ HandlerActive(callId)
  THEN UNCHANGED << activeFunctionHandlers, handlers >>
  ELSE /\ activeFunctionHandlers' = { callId }
       /\ handlers' = Append(handlers, NewHandler(callId))

StartFunctionHandler(callId) ==
  IF Falsy(callId) \/ HandlerActive(callId)
  THEN UNCHANGED << activeFunctionHandlers, handlers >>
  ELSE /\ activeFunctionHandlers' = activeFunctionHandlers \cup { callId }
       /\ handlers' = Append(handlers, NewHandler(callId))


(***************************************************************************)
(* acceptCall: the retry loop.  It touches no shared state, so it is run   *)
(* here on the whole sequence of answers the accept endpoint gives to its  *)
(* requests: responses[k] answers the k-th fetch with a status (0 stands   *)
(* for a fetch that rejects) and a body that can be read or not            *)
(* (response.text() rejects).  The result: whether the call threw, the     *)
(* number of requests issued, of 500 ms waits and of not-ready (404)       *)
(* answers, and the status that ended it.                                  *)
(***************************************************************************)
AcceptStatuses == { 200, 204, 404, 500, 0 }

AcceptAnswers ==
  { [ status |-> st, body |-> TRUE ] : st \in AcceptStatuses }
  \cup { [ status |-> st, body |-> FALSE ] : st \in { 404, 500 } }

ResponseSeqs == [ 1 .. retries + 1 -> AcceptAnswers ]

ShouldRetryMutAnyStatus(status, attempt) == attempt < retries

\* if (response.status === 404 && attempt < retries)
ShouldRetry(status, attempt) == status = 404 /\ attempt < retries

RECURSIVE AcceptLoop(_, _, _, _)
AcceptLoop(attempt, responses, waits, notReady) ==
  IF attempt > retries
  THEN \* the loop ran out: acceptCall returns undefined
       [ threw |-> FALSE, sent |-> attempt - 1, waits |-> waits,
         notReady |-> notReady, last |-> responses[attempt - 1].status ]
  ELSE LET status == responses[attempt].status
           seen == notReady + (IF status = 404 THEN 1 ELSE 0)
           thrown == [ threw |-> TRUE, sent |-> attempt, waits |-> waits,
                       notReady |-> seen, last |-> status ]
       IN  IF status = 0 THEN thrown              \* await fetch(...) rejects
           ELSE IF ResponseOk(status)             \* if (response.ok) return response
           THEN [ threw |-> FALSE, sent |-> attempt, waits |-> waits,
                  notReady |-> seen, last |-> status ]
           ELSE IF ~ responses[attempt].body      \* await response.text() rejects
           THEN thrown
           ELSE IF ShouldRetry(status, attempt)
           THEN AcceptLoop(attempt + 1, responses, waits + 1, seen)
           ELSE thrown

acceptCall(responses) == AcceptLoop(1, responses, 0, 0)

\* what acceptCall can come to
AcceptOutcomes == { acceptCall(responses) : responses \in ResponseSeqs }

(***************************************************************************)
(* The webhook endpoint, app.post("/openai-webhook").  A request of the    *)
(* model: the event (type, call_id, whether data.session.tools is there)   *)
(* and how it is signed.  Its body is an object with a type and a data     *)
(* object; the bodies without them (BareTypes) and the body that is no     *)
(* JSON follow the five branches of the route.                             *)
(***************************************************************************)
SigCases == { "signed", "forged", "unsigned" }

RawBody(type, callId, tools) ==
  "{" \o type \o ";" \o callId \o (IF tools THEN ";tools" ELSE "") \o "}"

\* the request that carries body, signed as sigCase says
SignedRequest(body, sigCase) ==
  LET id == "evt"
      ts == "1700000000"
      key == IF sigCase = "signed" THEN SenderKey ELSE "old"
      base == [ n \in { "webhook-id", "webhook-timestamp" } |->
                  IF n = "webhook-id" THEN id ELSE ts ]
  IN  [ headers |-> IF sigCase = "unsigned" THEN base
                    ELSE [ n \in DOMAIN base \cup { "webhook-signature" } |->
                             IF n = "webhook-signature"
                             THEN "v1," \o Hmac(key, SigPayload(id, ts, body))
                             ELSE base[n] ],
        rawBody |-> body ]

Request(type, callId, tools, sigCase) ==
  SignedRequest(RawBody(type, callId, tools), sigCase)

\* the verdict on every request of the model
Verdicts ==
  [ type \in EventTypes, callId \in ReqCallsTwo, tools \in BOOLEAN, sigCase \in SigCases |->
      verifySignature(Request(type, callId, tools, sigCase), ServerSecret) ]

Verified(type, callId, tools, sigCase) == Verdicts[type, callId, tools, sigCase]

\* the branch of the endpoint an event type takes
Kind(type) ==
  IF type = "realtime.call.incoming" THEN "incoming"
  ELSE IF type = "realtime.session.updated" THEN "updated"
  ELSE IF type \in TerminalTypes THEN "terminal"
  ELSE "unhandled"

\* a controller that rejects the event types it does not understand
ResponseMutRejectUnknown(kind, callId, sigCase, status) ==
  [ kind |-> kind, call |-> callId, sig |-> sigCase,
    status |-> IF kind = "unhandled" THEN 400 ELSE status,
    accept |-> << >>, did |-> {} ]

\* a controller that answers every request with 200
ResponseMutAlwaysOk(kind, callId, sigCase, status) ==
  [ kind |-> kind, call |-> callId, sig |-> sigCase,
    status |-> IF status = 0 THEN 0 ELSE 200, accept |-> << >>, did |-> {} ]

Response(kind, callId, sigCase, status) ==
  [ kind |-> kind, call |-> callId, sig |-> sigCase, status |-> status,
    accept |-> << >>, did |-> {} ]

\* what a request starts: the function stream ("fn") unless startFunctionHandler
\* returns early, the greeting unless triggerGreeting does
Started(callId, greet) ==
  { x \in { "fn" } : ~ (Falsy(callId) \/ HandlerActive(callId)) }
  \cup { x \in { "greeting" } : greet /\ ~ (Falsy(callId) \/ AlreadyGreeted(callId)) }

\* if (!verifySignature(req)) return res.status(401).send("invalid signature")
WebhookRejected(type, callId, tools, sigCase) ==
  /\ ~ exited
  /\ envCount < MaxEnv
  /\ ~ Verified(type, callId, tools, sigCase)
  /\ envCount' = envCount + 1
  /\ resp' = Response("rejected", Undefined, sigCase, 401)
  /\ UNCHANGED << callVars, transfers, sigIn, sigOut, xferIn, xferOut, exited, cacheVars >>

\* type === "realtime.call.incoming": handleIncomingCall calls
\* buildInstructions and buildGreeting, whose loaders return at once from a
\* cache that is set and start a readFile otherwise; the request stays
\* unanswered (status 0)
WebhookIncoming(callId, sigCase) ==
  /\ ~ exited
  /\ envCount < MaxEnv
  /\ Verified("realtime.call.incoming", callId, FALSE, sigCase)
  /\ envCount' = envCount + 1
  /\ accepts' = Append(accepts, [ call |-> callId, sig |-> sigCase, ended |-> FALSE,
                                  reading |-> ReadsStarted(caches) ])
  /\ resp' = Response("accepting", callId, sigCase, 0)
  /\ UNCHANGED << greetedCalls, activeFunctionHandlers, callStates, greetings,
                  handlers, transfers, sigIn, sigOut, xferIn, xferOut, exited, cacheVars >>

\* one readFile of an invocation returns: its loader assigns the cache; when
\* it was the last one, Promise.all settles and handleIncomingCall goes on to
\* acceptCall
ConfigLoaded(a, name) ==
  /\ ~ exited
  /\ accepts[a].reading[name] > 0
  /\ caches' = [ caches EXCEPT ![name] = CacheAfterRead(name, @, configFiles[name]) ]
  /\ accepts' = [ accepts EXCEPT ![a].reading[name] = @ - 1 ]
  /\ resp' = NoResp
  /\ UNCHANGED << greetedCalls, activeFunctionHandlers, callStates, greetings,
                  handlers, envCount, transfers, sigIn, sigOut, xferIn, xferOut, exited,
                  configFiles >>

\* acceptCall settles.  Returned: startFunctionHandler, triggerGreeting,
\* res.status(200).  Threw: caught, res.status(500); the answer that made it
\* throw is one more failure of the network.
AcceptDone(a, out) ==
  /\ ~ exited
  /\ a \in DOMAIN accepts
  /\ accepts[a].reading = NoReads
  /\ out \in AcceptOutcomes
  /\ IF out.threw
     THEN UNCHANGED << greetedCalls, activeFunctionHandlers, greetings, handlers >>
     ELSE /\ StartFunctionHandler(accepts[a].call)
          /\ TriggerGreeting(accepts[a].call)
  /\ accepts' = RemoveAt(accepts, a)
  /\ resp' = [ kind |-> "incoming", call |-> accepts[a].call, sig |-> accepts[a].sig,
               status |-> IF out.threw THEN 500 ELSE 200,
               accept |-> << out >>,
               did |-> IF out.threw THEN {} ELSE Started(accepts[a].call, TRUE) ]
  /\ UNCHANGED << callStates, transfers, sigIn, sigOut, xferIn, xferOut, exited, cacheVars >>
  /\ IF out.threw THEN Fault ELSE UNCHANGED envCount

\* type === "realtime.session.updated" && data.session?.tools
WebhookSessionUpdated(callId, tools, sigCase) ==
  /\ ~ exited
  /\ envCount < MaxEnv
  /\ Verified("realtime.session.updated", callId, tools, sigCase)
  /\ IF tools THEN StartFunctionHandler(callId)
     ELSE UNCHANGED << activeFunctionHandlers, handlers >>
  /\ envCount' = envCount + 1
  /\ resp' = [ Response("updated", callId, sigCase, 200) EXCEPT
                 !.did = IF tools THEN Started(callId, FALSE) ELSE {} ]
  /\ UNCHANGED << greetedCalls, callStates, accepts, greetings, transfers, sigIn, sigOut, xferIn, xferOut, exited, cacheVars >>

\* cleanupEvents.includes(type): greetedCalls.delete, callStates.delete
WebhookTerminal(type, callId, sigCase) ==
  /\ ~ exited
  /\ envCount < MaxEnv
  /\ type \in TerminalTypes
  /\ Verified(type, callId, FALSE, sigCase)
  /\ greetedCalls' = greetedCalls \ { callId }
  /\ callStates' = [ c \in DOMAIN callStates \ { callId } |-> callStates[c] ]
  /\ handlers' = [ h \in DOMAIN handlers |->
                     IF handlers[h].call = callId
                     THEN [ handlers[h] EXCEPT !.ended = TRUE ] ELSE handlers[h] ]
  /\ greetings' = [ g \in DOMAIN greetings |->
                      IF greetings[g].call = callId
                      THEN [ greetings[g] EXCEPT !.live = FALSE ] ELSE greetings[g] ]
  /\ accepts' = [ a \in DOMAIN accepts |->
                    IF accepts[a].call = callId
                    THEN [ accepts[a] EXCEPT !.ended = TRUE ] ELSE accepts[a] ]
  /\ envCount' = envCount + 1
  /\ resp' = Response("terminal", callId, sigCase, 200)
  /\ UNCHANGED << activeFunctionHandlers, transfers, sigIn, sigOut, xferIn, xferOut, exited, cacheVars >>

\* every other type: logged, res.send("ok")
WebhookUnhandled(type, callId, sigCase) ==
  /\ ~ exited
  /\ envCount < MaxEnv
  /\ Kind(type) = "unhandled"
  /\ Verified(type, callId, FALSE, sigCase)
  /\ envCount' = envCount + 1
  /\ resp' = Response("unhandled", Undefined, sigCase, 200)
  /\ UNCHANGED << callVars, transfers, sigIn, sigOut, xferIn, xferOut, exited, cacheVars >>

(***************************************************************************)
(* Bodies of other shapes.  A bare body is an object without data:         *)
(* { "type": type }, or {} when type is undefined.  The route reads        *)
(* data.call_id and data.session in the branches of the incoming, updated  *)
(* and terminal types and calls type.startsWith in the last one, so a bare *)
(* body of those types, or without a string type, makes the async handler  *)
(* throw a TypeError.  No response is written by the handler; what follows *)
(* depends on the express release the server is run with: the rejection is *)
(* unhandled and ends the process (fatal), or it is passed to the error    *)
(* handler, which answers 500.                                             *)
(***************************************************************************)
BareTypes == EventTypes \cup { Undefined }

BareBody(type) == IF type = Undefined THEN "{}" ELSE "{" \o type \o "}"

BareVerdicts ==
  [ type \in BareTypes, sigCase \in SigCases |->
      verifySignature(SignedRequest(BareBody(type), sigCase), ServerSecret) ]

\* the route throws on the bare body of this type
BareThrows(type) == type = Undefined \/ Kind(type) # "unhandled"

\* express.json() cannot parse the body: the middleware answers 400 and the
\* route does not run, whatever the signature
WebhookMalformed(sigCase) ==
  /\ ~ exited
  /\ envCount < MaxEnv
  /\ envCount' = envCount + 1
  /\ resp' = Response("malformed", Undefined, sigCase, 400)
  /\ UNCHANGED << callVars, transfers, sigIn, sigOut, xferIn, xferOut, exited, cacheVars >>

\* a bare body that does not make the route throw: rejected for its
\* signature, or of a type no branch reads data of (data?.call_id)
WebhookBare(type, sigCase) ==
  /\ ~ exited
  /\ envCount < MaxEnv
  /\ type \in BareTypes
  /\ ~ BareVerdicts[type, sigCase] \/ ~ BareThrows(type)
  /\ envCount' = envCount + 1
  /\ resp' = IF ~ BareVerdicts[type, sigCase]
             THEN Response("rejected", Undefined, sigCase, 401)
             ELSE Response("unhandled", Undefined, sigCase, 200)
  /\ UNCHANGED << callVars, transfers, sigIn, sigOut, xferIn, xferOut, exited, cacheVars >>

\* a verified bare body the route throws on
WebhookThrows(type, sigCase, fatal) ==
  /\ ~ exited
  /\ envCount < MaxEnv
  /\ type \in BareTypes
  /\ BareVerdicts[type, sigCase] /\ BareThrows(type)
  /\ envCount' = envCount + 1
  /\ exited' = fatal
  /\ resp' = Response("threw", Undefined, sigCase, IF fatal THEN 0 ELSE 500)
  /\ UNCHANGED << callVars, transfers, sigIn, sigOut, xferIn, xferOut, cacheVars >>

(***************************************************************************)
(* app.post("/admin/refresh-cache") and the config directory               *)
(***************************************************************************)
\* clearCache(); res.status(200).json({ status: "success", ... })
AdminRefreshCache ==
  /\ ~ exited
  /\ envCount < MaxEnv
  /\ envCount' = envCount + 1
  /\ caches' = clearCache(caches)
  /\ resp' = [ NoResp EXCEPT !.kind = "refresh", !.status = 200 ]
  /\ UNCHANGED << callVars, transfers, sigIn, sigOut, xferIn, xferOut, exited, configFiles >>

\* config/transfer-numbers.json is removed or damaged on disk, or restored
ConfigChange(file) ==
  /\ ~ exited
  /\ file \in TransferNumbersFiles
  /\ file # configFiles["transferNumbers"]
  /\ configFiles' = [ configFiles EXCEPT !["transferNumbers"] = file ]
  /\ resp' = NoResp
  /\ UNCHANGED << callVars, transfers, envCount, sigIn, sigOut, xferIn, xferOut, exited,
                  caches >>

(***************************************************************************)
(* gracefulShutdown(signal), on SIGTERM and SIGINT.  server.close runs its  *)
(* callback once the connections of the server have ended, which a sender   *)
(* that gives up its request brings about while handleIncomingCall still    *)
(* awaits: the three collections are cleared and process.exit(0) is called. *)
(* The 10 s timer calls process.exit(1) whatever is pending (forced).       *)
(* Nothing runs afterwards.                                                 *)
(***************************************************************************)
GracefulShutdown(forced) ==
  /\ ~ exited
  /\ envCount < MaxEnv
  /\ envCount' = envCount + 1
  /\ IF forced
     THEN UNCHANGED << greetedCalls, activeFunctionHandlers, callStates >>
     ELSE /\ greetedCalls' = {}
          /\ activeFunctionHandlers' = {}
          /\ callStates' = [ c \in {} |-> FreshCallState ]
  /\ exited' = TRUE
  /\ resp' = NoResp
  /\ UNCHANGED << accepts, greetings, handlers, transfers, sigIn, sigOut, xferIn,
                  xferOut, cacheVars >>

(***************************************************************************)
(* Next-state relation.  The config directory stays as it was at start-up; *)
(* NextCache below lets it change.                                         *)
(***************************************************************************)
Next ==
  \/ \E type \in EventTypes, callId \in ReqCalls, tools \in BOOLEAN, sigCase \in SigCases :
       WebhookRejected(type, callId, tools, sigCase)
  \/ \E callId \in ReqCalls, sigCase \in SigCases :
       WebhookIncoming(callId, sigCase)
  \/ \E a \in DOMAIN accepts, name \in ConfigNames :
       ConfigLoaded(a, name)
  \/ \E a \in DOMAIN accepts, out \in AcceptOutcomes :
       AcceptDone(a, out)
  \/ \E callId \in ReqCalls, tools \in BOOLEAN, sigCase \in SigCases :
       WebhookSessionUpdated(callId, tools, sigCase)
  \/ \E type \in TerminalTypes, callId \in ReqCalls, sigCase \in SigCases :
       WebhookTerminal(type, callId, sigCase)
  \/ \E type \in EventTypes, callId \in ReqCalls, sigCase \in SigCases :
       WebhookUnhandled(type, callId, sigCase)
  \/ \E sigCase \in SigCases :
       WebhookMalformed(sigCase)
  \/ \E type \in BareTypes, sigCase \in SigCases :
       WebhookBare(type, sigCase)
  \/ \E type \in BareTypes, sigCase \in SigCases, fatal \in BOOLEAN :
       WebhookThrows(type, sigCase, fatal)
  \/ AdminRefreshCache
  \/ \E forced \in BOOLEAN :
       GracefulShutdown(forced)
  \/ \E g \in DOMAIN greetings :
       GreetConnect(g)
  \/ \E g \in DOMAIN greetings :
       GreetOpen(g)
  \/ \E g \in DOMAIN greetings :
       GreetTimeout(g)
  \/ \E g \in DOMAIN greetings :
       GreetConnFail(g)
  \/ \E g \in DOMAIN greetings :
       GreetError(g)
  \/ \E g \in DOMAIN greetings :
       GreetCloseTimer(g)
  \/ \E g \in DOMAIN greetings :
       GreetCloseFrame(g)
  \/ \E g \in DOMAIN greetings :
       GreetClose(g)
  \/ \E h \in DOMAIN handlers, which \in Whiches :
       FnOpen(h, which)
  \/ \E h \in DOMAIN handlers, which \in Whiches :
       FnConnFail(h, which)
  \/ \E h \in DOMAIN handlers, which \in Whiches, st \in { "open", "closing" } :
       FnError(h, which, st)
  \/ \E h \in DOMAIN handlers, which \in Whiches, st \in { "open", "closing" },
        code \in { NormalClosure, AbnormalClosure } :
       FnCloseFrame(h, which, st, code)
  \/ \E h \in DOMAIN handlers, which \in Whiches, st \in LiveStates,
        code \in { NormalClosure, AbnormalClosure } :
       FnClose(h, which, st, code)
  \/ \E h \in DOMAIN handlers, stale \in BOOLEAN :
       FnConnTimeout(h, stale)
  \/ \E h \in DOMAIN handlers : \E k \in DOMAIN handlers[h].timers :
       FnReconnect(h, k)
  \/ \E h \in DOMAIN handlers :
       FnHeartbeat(h)
  \/ \E h \in DOMAIN handlers, which \in Whiches, st \in { "open", "closing" },
        ev \in MessageEvents :
       \E after \in AfterChunk(st) :
         FnMessage(h, which, st, ev, after)
  \/ \E t \in DOMAIN transfers :
       TransferLoaded(t)
  \/ \E t \in DOMAIN transfers, answer \in ReferAnswers :
       TransferDone(t, answer)

Spec == Init /\ [][Next]_vars

(***************************************************************************)
(* Two concurrent calls: the same steps with the events and messages of    *)
(* two call ids interleaved.  The environment is given MaxEnvTwo events    *)
(* (the count of its events starts that much below MaxEnv): all of them    *)
(* but one for each call id are events of any kind, and after those the    *)
(* function stream of a call is given one failure or message more, while   *)
(* it has had none.                                                        *)
(***************************************************************************)
MaxEnvTwo == MaxEnv + 1

InitTwo ==
  /\ InitServer
  /\ envCount = MaxEnv - MaxEnvTwo
  /\ sigIn = NoSigIn /\ sigOut = "none"
  /\ xferIn = NoXferIn /\ xferOut = NoXferOut

\* the step takes no event of the environment, or one of those of any kind
BudgetTwo == envCount' > envCount => envCount' <= MaxEnv - Cardinality(CallIdsTwo)

\* the function stream of handler h has had no failure and no message
Undisturbed(h) ==
  /\ handlers[h].attempts = 0 /\ handlers[h].timers = << >>
  /\ handlers[h].old = NoOld
  /\ handlers[h].cur \in { "connecting", "open", "closing" }
  /\ \A t \in DOMAIN transfers : transfers[t].h # h

\* the step takes no event of the environment, or the first one of the
\* stream of handler h
BudgetTwoStream(h) == envCount' > envCount => Undisturbed(h)

NextTwo ==
  \/ \E type \in EventTypes, callId \in ReqCallsTwo, tools \in BOOLEAN, sigCase \in SigCases :
       WebhookRejected(type, callId, tools, sigCase) /\ BudgetTwo
  \/ \E callId \in ReqCallsTwo, sigCase \in SigCases :
       WebhookIncoming(callId, sigCase) /\ BudgetTwo
  \/ \E a \in DOMAIN accepts, name \in ConfigNames :
       ConfigLoaded(a, name) /\ BudgetTwo
  \/ \E a \in DOMAIN accepts, out \in AcceptOutcomes :
       AcceptDone(a, out) /\ BudgetTwo
  \/ \E callId \in ReqCallsTwo, tools \in BOOLEAN, sigCase \in SigCases :
       WebhookSessionUpdated(callId, tools, sigCase) /\ BudgetTwo
  \/ \E type \in TerminalTypes, callId \in ReqCallsTwo, sigCase \in SigCases :
       WebhookTerminal(type, callId, sigCase) /\ BudgetTwo
  \/ \E type \in EventTypes, callId \in ReqCallsTwo, sigCase \in SigCases :
       WebhookUnhandled(type, callId, sigCase) /\ BudgetTwo
  \/ \E sigCase \in SigCases :
       WebhookMalformed(sigCase) /\ BudgetTwo
  \/ \E type \in BareTypes, sigCase \in SigCases :
       WebhookBare(type, sigCase) /\ BudgetTwo
  \/ \E type \in BareTypes, sigCase \in SigCases, fatal \in BOOLEAN :
       WebhookThrows(type, sigCase, fatal) /\ BudgetTwo
  \/ AdminRefreshCache /\ BudgetTwo
  \/ \E forced \in BOOLEAN :
       GracefulShutdown(forced) /\ BudgetTwo
  \/ \E g \in DOMAIN greetings :
       GreetConnect(g) /\ BudgetTwo
  \/ \E g \in DOMAIN greetings :
       GreetOpen(g) /\ BudgetTwo
  \/ \E g \in DOMAIN greetings :
       GreetTimeout(g) /\ BudgetTwo
  \/ \E g \in DOMAIN greetings :
       GreetConnFail(g) /\ BudgetTwo
  \/ \E g \in DOMAIN greetings :
       GreetError(g) /\ BudgetTwo
  \/ \E g \in DOMAIN greetings :
       GreetCloseTimer(g) /\ BudgetTwo
  \/ \E g \in DOMAIN greetings :
       GreetCloseFrame(g) /\ BudgetTwo
  \/ \E g \in DOMAIN greetings :
       GreetClose(g) /\ BudgetTwo
  \/ \E h \in DOMAIN handlers, which \in Whiches :
       FnOpen(h, which) /\ BudgetTwo
  \/ \E h \in DOMAIN handlers, which \in Whiches :
       FnConnFail(h, which) /\ BudgetTwoStream(h)
  \/ \E h \in DOMAIN handlers, which \in Whiches, st \in { "open", "closing" } :
       FnError(h, which, st) /\ BudgetTwoStream(h)
  \/ \E h \in DOMAIN handlers, which \in Whiches, st \in { "open", "closing" },
        code \in { NormalClosure, AbnormalClosure } :
       FnCloseFrame(h, which, st, code) /\ BudgetTwoStream(h)
  \/ \E h \in DOMAIN handlers, which \in Whiches, st \in LiveStates,
        code \in { NormalClosure, AbnormalClosure } :
       FnClose(h, which, st, code) /\ BudgetTwoStream(h)
  \/ \E h \in DOMAIN handlers, stale \in BOOLEAN :
       FnConnTimeout(h, stale) /\ BudgetTwoStream(h)
  \/ \E h \in DOMAIN handlers : \E k \in DOMAIN handlers[h].timers :
       FnReconnect(h, k) /\ BudgetTwo
  \/ \E h \in DOMAIN handlers :
       FnHeartbeat(h) /\ BudgetTwo
  \/ \E h \in DOMAIN handlers, which \in Whiches, st \in { "open", "closing" },
        ev \in MessageEvents :
       \E after \in AfterChunk(st) :
         FnMessage(h, which, st, ev, after) /\ BudgetTwoStream(h)
  \/ \E t \in DOMAIN transfers :
       TransferLoaded(t) /\ BudgetTwo
  \/ \E t \in DOMAIN transfers, answer \in ReferAnswers :
       TransferDone(t, answer) /\ BudgetTwo

SpecTwo == InitTwo /\ [][NextTwo]_vars

(***************************************************************************)
(* The calls of one call id together with the changes of the               *)
(* transfer-numbers file.  File changes are not counted.  The environment  *)
(* is given MaxEnv events, the last of which is a message of a function    *)
(* stream or a cache refresh.                                              *)
(***************************************************************************)
MaxEnvCache == MaxEnv - 1

\* the step takes no event of the environment, or one before the last
BudgetCache == envCount' > envCount => envCount' <= MaxEnvCache

NextCache ==
  \/ \E type \in EventTypes, callId \in ReqCalls, tools \in BOOLEAN, sigCase \in SigCases :
       WebhookRejected(type, callId, tools, sigCase) /\ BudgetCache
  \/ \E callId \in ReqCalls, sigCase \in SigCases :
       WebhookIncoming(callId, sigCase) /\ BudgetCache
  \/ \E a \in DOMAIN accepts, name \in ConfigNames :
       ConfigLoaded(a, name) /\ BudgetCache
  \/ \E a \in DOMAIN accepts, out \in AcceptOutcomes :
       AcceptDone(a, out) /\ BudgetCache
  \/ \E callId \in ReqCalls, tools \in BOOLEAN, sigCase \in SigCases :
       WebhookSessionUpdated(callId, tools, sigCase) /\ BudgetCache
  \/ \E type \in TerminalTypes, callId \in ReqCalls, sigCase \in SigCases :
       WebhookTerminal(type, callId, sigCase) /\ BudgetCache
  \/ \E type \in EventTypes, callId \in ReqCalls, sigCase \in SigCases :
       WebhookUnhandled(type, callId, sigCase) /\ BudgetCache
  \/ \E sigCase \in SigCases :
       WebhookMalformed(sigCase) /\ BudgetCache
  \/ \E type \in BareTypes, sigCase \in SigCases :
       WebhookBare(type, sigCase) /\ BudgetCache
  \/ \E type \in BareTypes, sigCase \in SigCases, fatal \in BOOLEAN :
       WebhookThrows(type, sigCase, fatal) /\ BudgetCache
  \/ AdminRefreshCache
  \/ \E forced \in BOOLEAN :
       GracefulShutdown(forced) /\ BudgetCache
  \/ \E g \in DOMAIN greetings :
       GreetConnect(g) /\ BudgetCache
  \/ \E g \in DOMAIN greetings :
       GreetOpen(g) /\ BudgetCache
  \/ \E g \in DOMAIN greetings :
       GreetTimeout(g) /\ BudgetCache
  \/ \E g \in DOMAIN greetings :
       GreetConnFail(g) /\ BudgetCache
  \/ \E g \in DOMAIN greetings :
       GreetError(g) /\ BudgetCache
  \/ \E g \in DOMAIN greetings :
       GreetCloseTimer(g) /\ BudgetCache
  \/ \E g \in DOMAIN greetings :
       GreetCloseFrame(g) /\ BudgetCache
  \/ \E g \in DOMAIN greetings :
       GreetClose(g) /\ BudgetCache
  \/ \E h \in DOMAIN handlers, which \in Whiches :
       FnOpen(h, which) /\ BudgetCache
  \/ \E h \in DOMAIN handlers, which \in Whiches :
       FnConnFail(h, which) /\ BudgetCache
  \/ \E h \in DOMAIN handlers, which \in Whiches, st \in { "open", "closing" } :
       FnError(h, which, st) /\ BudgetCache
  \/ \E h \in DOMAIN handlers, which \in Whiches, st \in { "open", "closing" },
        code \in { NormalClosure, AbnormalClosure } :
       FnCloseFrame(h, which, st, code) /\ BudgetCache
  \/ \E h \in DOMAIN handlers, which \in Whiches, st \in LiveStates,
        code \in { NormalClosure, AbnormalClosure } :
       FnClose(h, which, st, code) /\ BudgetCache
  \/ \E h \in DOMAIN handlers, stale \in BOOLEAN :
       FnConnTimeout(h, stale) /\ BudgetCache
  \/ \E h \in DOMAIN handlers : \E k \in DOMAIN handlers[h].timers :
       FnReconnect(h, k) /\ BudgetCache
  \/ \E h \in DOMAIN handlers :
       FnHeartbeat(h) /\ BudgetCache
  \/ \E h \in DOMAIN handlers, which \in Whiches, st \in { "open", "closing" },
        ev \in MessageEvents :
       \E after \in AfterChunk(st) :
         FnMessage(h, which, st, ev, after)
  \/ \E t \in DOMAIN transfers :
       TransferLoaded(t) /\ BudgetCache
  \/ \E t \in DOMAIN transfers, answer \in ReferAnswers :
       TransferDone(t, answer) /\ BudgetCache
  \/ \E file \in TransferNumbersFiles :
       ConfigChange(file)

SpecCache == Init /\ [][NextCache]_vars

(***************************************************************************)
(* The function stream of one call followed alone: the session.updated     *)
(* events that start it, the callbacks of its sockets and its timers.  No  *)
(* call is accepted or greeted and no message is delivered; the            *)
(* environment is given MaxEnvStream events: the count of its events       *)
(* starts that much below MaxEnv.                                          *)
(***************************************************************************)
InitStream ==
  /\ InitServer
  /\ envCount = MaxEnv - MaxEnvStream
  /\ sigIn = NoSigIn /\ sigOut = "none"
  /\ xferIn = NoXferIn /\ xferOut = NoXferOut

NextStream ==
  \/ \E callId \in ReqCalls, tools \in BOOLEAN, sigCase \in SigCases :
       WebhookSessionUpdated(callId, tools, sigCase)
  \/ \E h \in DOMAIN handlers, which \in Whiches :
       FnOpen(h, which)
  \/ \E h \in DOMAIN handlers, which \in Whiches :
       FnConnFail(h, which)
  \/ \E h \in DOMAIN handlers, which \in Whiches, st \in { "open", "closing" } :
       FnError(h, which, st)
  \/ \E h \in DOMAIN handlers, which \in Whiches, st \in { "open", "closing" },
        code \in { NormalClosure, AbnormalClosure } :
       FnCloseFrame(h, which, st, code)
  \/ \E h \in DOMAIN handlers, which \in Whiches, st \in LiveStates,
        code \in { NormalClosure, AbnormalClosure } :
       FnClose(h, which, st, code)
  \/ \E h \in DOMAIN handlers, stale \in BOOLEAN :
       FnConnTimeout(h, stale)
  \/ \E h \in DOMAIN handlers : \E k \in DOMAIN handlers[h].timers :
       FnReconnect(h, k)
  \/ \E h \in DOMAIN handlers :
       FnHeartbeat(h)

SpecStream == InitStream /\ [][NextStream]_vars

\* the function streams of two calls followed alone
NextStreamTwo ==
  \/ \E callId \in ReqCallsTwo, tools \in BOOLEAN, sigCase \in SigCases :
       WebhookSessionUpdated(callId, tools, sigCase)
  \/ \E h \in DOMAIN handlers, which \in Whiches :
       FnOpen(h, which)
  \/ \E h \in DOMAIN handlers, which \in Whiches :
       FnConnFail(h, which)
  \/ \E h \in DOMAIN handlers, which \in Whiches, st \in { "open", "closing" } :
       FnError(h, which, st)
  \/ \E h \in DOMAIN handlers, which \in Whiches, st \in { "open", "closing" },
        code \in { NormalClosure, AbnormalClosure } :
       FnCloseFrame(h, which, st, code)
  \/ \E h \in DOMAIN handlers, which \in Whiches, st \in LiveStates,
        code \in { NormalClosure, AbnormalClosure } :
       FnClose(h, which, st, code)
  \/ \E h \in DOMAIN handlers, stale \in BOOLEAN :
       FnConnTimeout(h, stale)
  \/ \E h \in DOMAIN handlers : \E k \in DOMAIN handlers[h].timers :
       FnReconnect(h, k)
  \/ \E h \in DOMAIN handlers :
       FnHeartbeat(h)

SpecStreamTwo == InitStream /\ [][NextStreamTwo]_vars

(***************************************************************************)
(* verifySignature on its own: one call on a request and a configured      *)
(* secret drawn from the cases below.  A signature header is written from  *)
(* its items (the space-separated pieces), an item from its fields (the    *)
(* comma-separated pieces) and the white space the sender put before and   *)
(* after them; sigIn holds what the request is written from.                *)
(***************************************************************************)
SigIds == { Undefined, "", "evt" }
SigTimestamps == { Undefined, "", "1700000000" }
SigBodies == { "{}", "{x}" }
SigSecrets == { Undefined, "", "whsec_", "whsec_a2V5", "a2V5", "whsec_b2xk" }

\* digests a sender may have put into the header
SigDigests ==
  { Hmac(key, SigPayload("evt", "1700000000", body)) :
      key \in { SenderKey, "old" }, body \in SigBodies }

\* an item of a header: its fields, and the names of the white space before
\* and after them
Item(fields, lead, trail) == [ fields |-> fields, lead |-> lead, trail |-> trail ]

Pad(name) ==
  IF name = "tab" THEN "\t" ELSE IF name = "nbsp" THEN NoBreakSpace ELSE ""

ThisDigest == Hmac(SenderKey, SigPayload("evt", "1700000000", "{}"))

\* the items of a header: a digest, with or without its version label, with
\* a second digest, followed by a tab or by a no-break space, preceded by a
\* tab
ItemShapes ==
  { Item(<< d >>, "", "") : d \in SigDigests \cup { "v1" } }
  \cup { Item(<< "v1", d >>, "", "") : d \in SigDigests }
  \cup { Item(<< "v1", d, e >>, "", "") :
            d \in { Hmac("old", SigPayload("evt", "1700000000", "{}")) },
            e \in SigDigests }
  \cup { Item(<< "v1", ThisDigest >>, "", trail) : trail \in { "tab", "nbsp" } }
  \cup { Item(<< "v1", ThisDigest >>, "tab", ""), Item(<< ThisDigest >>, "tab", "") }

HeaderItems == UNION { [ 1 .. n -> ItemShapes ] : n \in 0 .. MaxItems }

RenderItem(item) == Pad(item.lead) \o Join(item.fields, ",") \o Pad(item.trail)

RenderHeader(items) == Join([ i \in DOMAIN items |-> RenderItem(items[i]) ], " ")

SigRequest(id, ts, present, items, body) ==
  LET names == { n \in { "webhook-id", "webhook-timestamp", "webhook-signature" } :
                   \/ n = "webhook-id" /\ id # Undefined
                   \/ n = "webhook-timestamp" /\ ts # Undefined
                   \/ n = "webhook-signature" /\ present }
  IN  [ headers |-> [ n \in names |->
                        IF n = "webhook-id" THEN id
                        ELSE IF n = "webhook-timestamp" THEN ts
                        ELSE RenderHeader(items) ],
        rawBody |-> body ]

InitSig ==
  /\ InitCalls
  /\ sigOut = "none"
  /\ xferIn = NoXferIn /\ xferOut = NoXferOut
  /\ \E id \in SigIds, ts \in SigTimestamps, body \in SigBodies,
        secret \in SigSecrets, present \in BOOLEAN, items \in HeaderItems :
       /\ present \/ items = << >>
       /\ sigIn = [ id |-> id, timestamp |-> ts, present |-> present, items |-> items,
                    rawBody |-> body, secret |-> secret ]

\* the request sigIn describes
SigIn ==
  SigRequest(sigIn.id, sigIn.timestamp, sigIn.present, sigIn.items, sigIn.rawBody)

VerifyCall ==
  /\ sigOut = "none"
  /\ sigOut' = IF verifySignature(SigIn, sigIn.secret) THEN "true" ELSE "false"
  /\ UNCHANGED << callVars, transfers, envCount, resp, sigIn, xferIn, xferOut, exited, cacheVars >>

NextSig == VerifyCall

SpecSig == InitSig /\ [][NextSig]_vars


(***************************************************************************)
(* A lone transferCall: every destination key (configured, unknown,        *)
(* missing, and names every object inherits), with the table cached, read  *)
(* from the file or unreadable, against every answer of the refer endpoint *)
(* (a response with or without a request id and body, a body that cannot   *)
(* be read, a fetch that rejects).                                         *)
(***************************************************************************)
XferKeys ==
  { "sales", "john", "billing", "constructor", "__proto__", "toString", "valueOf",
    Undefined }

XferStatuses == { 200, 204, 404, 500 }

XferAnswers ==
  { [ kind |-> "response", status |-> st, requestId |-> id, text |-> tx, error |-> "" ] :
      st \in XferStatuses, id \in { Undefined, "req_1" },
      tx \in { "", "SIP transfer is disabled" } }
  \cup { [ kind |-> "badbody", status |-> st, requestId |-> Undefined, text |-> "",
           error |-> "Premature close" ] : st \in { 404, 500 } }
  \cup { [ kind |-> "reject", status |-> 0, requestId |-> Undefined, text |-> "",
           error |-> "connect ECONNREFUSED" ] }

XferCaches ==
  { [ set |-> FALSE, value |-> EmptyObject ], [ set |-> TRUE, value |-> TransferNumbers ] }

XferFiles ==
  { [ readable |-> TRUE, content |-> TransferNumbers ],
    [ readable |-> FALSE, content |-> EmptyObject ] }

InitTransfer ==
  /\ greetedCalls = {}
  /\ activeFunctionHandlers = {}
  /\ callStates = [ c \in {} |-> FreshCallState ]
  /\ accepts = << >>
  /\ greetings = << >>
  /\ handlers = << >>
  /\ transfers = << >>
  /\ resp = NoResp
  /\ exited = FALSE
  /\ envCount = 0
  /\ sigIn = NoSigIn /\ sigOut = "none"
  /\ xferOut = NoXferOut
  /\ \E key \in XferKeys, cache \in XferCaches, file \in XferFiles,
        answer \in XferAnswers :
       /\ xferIn = [ key |-> key, cache |-> cache, file |-> file, answer |-> answer ]
       /\ caches = [ n \in ConfigNames |->
                       IF n = "transferNumbers" THEN cache ELSE NoCache(n) ]
       /\ configFiles = [ ConfigAtStart EXCEPT !["transferNumbers"] = file ]

\* the destination has been looked up in numbers: the function returns at
\* once when it is not found, otherwise it sends the refer request and waits
\* for the answer
TransferCallLookup(numbers) ==
  LET transferInfo == GetProperty(numbers, xferIn.key)
  IN  IF ~ transferInfo.truthy
      THEN [ done |-> TRUE, result |-> TransferNotFound(xferIn.key) ]
      ELSE [ done |-> FALSE, info |-> transferInfo ]

\* transferCall is called: await getTransferNumber(transferKey) finds
\* transferNumbersCache set and the destination is looked up in it at the end
\* of the turn, or it starts the readFile and the turn ends with the read
\* pending, the cache as it was and nothing sent
TransferCallRun ==
  /\ xferOut = NoXferOut
  /\ xferOut' = IF caches["transferNumbers"].set
                THEN TransferCallLookup(caches["transferNumbers"].value)
                ELSE [ done |-> FALSE, reading |-> TRUE ]
  /\ UNCHANGED << callVars, transfers, envCount, resp, sigIn, sigOut, xferIn,
                  cacheVars, exited >>

\* the readFile returns: the table is cached if it was read and parsed, and
\* the destination is looked up in what was read (in {} when it was not)
TransferCallLoaded ==
  /\ ~ xferOut.done /\ "reading" \in DOMAIN xferOut
  /\ caches' = [ caches EXCEPT !["transferNumbers"] =
                    CacheAfterRead("transferNumbers", @, configFiles["transferNumbers"]) ]
  /\ xferOut' = TransferCallLookup(loadTransferNumbers(NoCache("transferNumbers"),
                                                       configFiles["transferNumbers"]))
  /\ UNCHANGED << callVars, transfers, envCount, resp, sigIn, sigOut, xferIn,
                  configFiles, exited >>

\* the refer request is answered (or fetch rejects) and transferCall returns
TransferCallAnswered ==
  /\ ~ xferOut.done /\ "info" \in DOMAIN xferOut
  /\ xferOut' = [ done |-> TRUE,
                  result |-> TransferReferred(xferOut.info, xferIn.answer) ]
  /\ UNCHANGED << callVars, transfers, envCount, resp, sigIn, sigOut, xferIn,
                  cacheVars, exited >>

NextTransfer == TransferCallRun \/ TransferCallLoaded \/ TransferCallAnswered

SpecTransfer == InitTransfer /\ [][NextTransfer]_vars

(***************************************************************************)
(* Properties                                                              *)
(***************************************************************************)
\* The claims are read of the server while it runs: the states in which the
\* process has exited, and the step in which gracefulShutdown ends it, are
\* outside them.
Up == ~ exited

StaysUp == ~ exited'

\* the step answers an incoming-call request (acceptCall has settled)
AcceptAnswered == resp'.kind = "incoming"

\* transferCall has been called for transfer t and has not returned
InFlight(t) == transfers[t].stage \in { "reading", "running" }

\* the step leaves transfer t as it is, but for the copies of its request
\* that are still on their way
Untouched(t) == [ transfers'[t] EXCEPT !.copies = transfers[t].copies ] = transfers[t]

\* what every step that reads a message does, whatever the message: it is
\* no request, it takes an event of the environment or starts a transfer, and
\* it leaves the greetings and the accepts alone
MessageStep ==
  /\ resp' = NoResp
  /\ envCount' > envCount \/ Len(transfers') > Len(transfers)
  /\ UNCHANGED << greetedCalls, accepts, greetings >>

\* the step is the message listener of a socket of handler h reading ev
MessageRead(h, ev) ==
  /\ MessageStep
  /\ \E which \in Whiches, st \in { "open", "closing" } :
       \E after \in AfterChunk(st) :
         FnMessage(h, which, st, ev, after)

\* the step receives a webhook request
Received == resp'.kind \notin { "none", "incoming", "refresh" }

\* the step calls triggerGreeting for its request's call
Triggers == AcceptAnswered /\ resp'.status = 200

\* the step calls startFunctionHandler for its request's call
StartsHandler ==
  \/ AcceptAnswered /\ resp'.status = 200
  \/ Received /\ resp'.kind = "updated" /\ resp'.did # {}
  \/ Received /\ resp'.kind = "updated" /\ resp'.call \in activeFunctionHandlers

UnfinishedGreetings(callId) ==
  { g \in DOMAIN greetings :
      greetings[g].call = callId /\ greetings[g].result = "pending" }

UnfinishedHandlers(callId) ==
  { h \in DOMAIN handlers :
      handlers[h].call = callId /\ handlers[h].result = "pending" }

\* C1: of the greeting triggers of one callId that have not finished, at
\* most one has found the greeted flag clear, set it and gone on to open a
\* greeting connection; every other one found it set.
C1_OneTriggerInFlight ==
  Up =>
  (\A callId \in CallIds : Cardinality(UnfinishedGreetings(callId)) <= 1)

\* C1, what does hold: as long as no terminal event for the callId is
\* handled between the triggers, at most one unfinished trigger has passed
\* the greeted check; a trigger that finds the flag set changes nothing and
\* a trigger that finds it clear sets it and goes on to connect.
C1_GreetedOnceWithinCall ==
  /\ [](Up => (\A callId \in CallIds :
                 /\ Cardinality({ g \in UnfinishedGreetings(callId) : greetings[g].live }) <= 1
                 /\ \A g \in UnfinishedGreetings(callId) :
                      greetings[g].live => callId \in greetedCalls))
  /\ [][StaysUp => (Triggers /\ resp'.call \in CallIds =>
                      IF resp'.call \in greetedCalls
                      THEN UNCHANGED << greetedCalls, greetings >>
                      ELSE /\ greetedCalls' = greetedCalls \cup { resp'.call }
                           /\ greetings' = Append(greetings, NewGreeting(resp'.call)))]_vars

\* C2: a startFunctionHandler call for a callId whose handler has not
\* ended creates no handler, and the callId then has no more than one open
\* function-stream connection.
C2_OneLiveConnection ==
  [][StaysUp => (StartsHandler /\ resp'.call \in activeFunctionHandlers =>
                   /\ UNCHANGED << activeFunctionHandlers, handlers >>
                   /\ \A h \in UnfinishedHandlers(resp'.call) :
                        OpenConnections(handlers[h]) <= 1)]_vars

\* C2, what does hold: while a handler of a callId has not ended the callId
\* is in the guard and that handler is the only unfinished one; a
\* startFunctionHandler call for a guarded callId changes nothing, one for an
\* unguarded callId creates one handler with one connection.
C2_OneUnfinishedHandler ==
  /\ [](Up => (\A callId \in CallIds :
                 Cardinality(UnfinishedHandlers(callId))
                   = IF callId \in activeFunctionHandlers THEN 1 ELSE 0))
  /\ [][StaysUp => (StartsHandler /\ resp'.call \in CallIds =>
                      IF resp'.call \in activeFunctionHandlers
                      THEN UNCHANGED << activeFunctionHandlers, handlers >>
                      ELSE /\ activeFunctionHandlers' = activeFunctionHandlers \cup { resp'.call }
                           /\ Len(handlers') = Len(handlers) + 1
                           /\ LiveConnections(handlers'[Len(handlers')]) = 1)]_vars

\* C3: the step that handles a terminal event for a callId leaves the callId
\* in none of callStates, greetedCalls and activeFunctionHandlers, and leaves
\* no function-stream or greeting connection of the callId open.
C3_TerminalRemovesCall ==
  [][StaysUp => (Received /\ resp'.kind = "terminal" /\ resp'.call \in CallIds =>
                   /\ resp'.call \notin DOMAIN callStates'
                   /\ resp'.call \notin greetedCalls'
                   /\ resp'.call \notin activeFunctionHandlers'
                   /\ \A h \in DOMAIN handlers' :
                        handlers'[h].call = resp'.call => OpenConnections(handlers'[h]) = 0
                   /\ \A g \in DOMAIN greetings' :
                        greetings'[g].call = resp'.call => greetings'[g].sock # "open")]_vars

\* C4: a function-stream handler whose call has had a terminal event starts
\* no connection attempt and sends no heartbeat ping afterwards.
C4_NothingAfterTerminal ==
  Up =>
  (\A h \in DOMAIN handlers : handlers[h].late = {})

\* C5: a request that is not validly signed is answered 401, and handling it
\* changes none of greetedCalls, activeFunctionHandlers and callStates, starts
\* no accept handshake, no greeting and no function stream.
C5_RejectedUntouched ==
  [][StaysUp => (Received /\ resp'.sig # "signed" =>
                   resp'.status = 401 /\ UNCHANGED callVars)]_vars

\* a body that JSON.parse rejects
MalformedBody == "{"

\* C5, amended: a request whose signature does not verify is answered 401,
\* or 400 when its body is no JSON (the body parser answers before the
\* signature is looked at), and handling it changes none of greetedCalls,
\* activeFunctionHandlers and callStates, starts no accept handshake, no
\* greeting and no function stream.
C5_RejectedOrUnparsed ==
  [][StaysUp => (Received /\ resp'.sig # "signed" =>
                   /\ resp'.kind \in { "rejected", "malformed" }
                   /\ resp'.status = IF resp'.kind = "malformed" THEN 400 ELSE 401
                   /\ resp'.kind = "malformed" =>
                        ~ verifySignature(SignedRequest(MalformedBody, resp'.sig),
                                          ServerSecret)
                   /\ UNCHANGED callVars)]_vars

\* a forged request was rejected while a call was being served
C5_Witness ==
  /\ resp.status = 401 /\ resp.sig = "forged"
  /\ activeFunctionHandlers # {} /\ greetedCalls # {}

\* the signature values the sender put into a header written from items:
\* the fields of each item after its version label, the one field of an
\* item that has no label; the white space around an item is none of them
SignatureValues(items) ==
  UNION { IF Len(items[i].fields) > 1
          THEN { items[i].fields[k] : k \in 2 .. Len(items[i].fields) }
          ELSE { items[i].fields[1] } : i \in DOMAIN items }

HeaderPresent(name) ==
  name \in DOMAIN SigIn.headers /\ SigIn.headers[name] # ""

\* C6: verifySignature returns true exactly when the three headers are
\* present, the secret is non-empty after stripping whsec_, and the digest of
\* webhookId.timestamp.rawBody under the decoded secret is one of the
\* signature values of the header.
C6_VerifyIff ==
  sigOut # "none" =>
    ( sigOut = "true" <=>
        /\ HeaderPresent("webhook-id")
        /\ HeaderPresent("webhook-timestamp")
        /\ HeaderPresent("webhook-signature")
        /\ sigIn.secret # Undefined
        /\ StripPrefix(sigIn.secret) # ""
        /\ Hmac(Base64Decode(StripPrefix(sigIn.secret)),
                SigPayload(SigIn.headers["webhook-id"],
                           SigIn.headers["webhook-timestamp"], sigIn.rawBody))
             \in SignatureValues(sigIn.items) )

\* accepted on the second item of the header, whose digest is followed by a
\* no-break space; the first item carries two other digests
C6_Witness ==
  /\ sigOut = "true"
  /\ Len(sigIn.items) = 2
  /\ Len(sigIn.items[1].fields) = 3
  /\ sigIn.items[2].trail = "nbsp"
  /\ Hmac(SenderKey, SigPayload("evt", "1700000000", sigIn.rawBody))
       \in SignatureValues(<< sigIn.items[2] >>)
  /\ Hmac(SenderKey, SigPayload("evt", "1700000000", sigIn.rawBody))
       \notin SignatureValues(<< sigIn.items[1] >>)

\* C7: a handler that has given up (resolved false) has no reconnection
\* pending and no connection attempt under way: reconnection has stopped.
C7_StopsAfterGivingUp ==
  Up =>
  (\A h \in DOMAIN handlers :
     handlers[h].result = "false" =>
       handlers[h].timers = << >> /\ LiveConnections(handlers[h]) = 0)

\* C8: a handler that ended on a normal closure (resolved true) has no
\* reconnection pending and no connection, and no longer holds the guard.
C8_NormalClosureEnds ==
  Up =>
  (\A h \in DOMAIN handlers :
     handlers[h].result = "true" =>
       /\ handlers[h].timers = << >>
       /\ LiveConnections(handlers[h]) = 0
       /\ handlers[h].call \in activeFunctionHandlers
            => UnfinishedHandlers(handlers[h].call) # {})

\* C9: when an accept handshake ends on a 404 it has issued exactly 3
\* requests, all answered 404, and the event is answered 500; when it ends on
\* a success at attempt k, the k-1 earlier answers were 404, k <= 3, no
\* further request is issued, the event is answered 200 and the call has its
\* function stream guard and its greeted flag set.
C9_AcceptRetries ==
  [][StaysUp => (AcceptAnswered =>
                   LET out == resp'.accept[1]
                   IN  /\ out.last = 404 =>
                            out.sent = retries /\ out.notReady = retries /\ resp'.status = 500
                       /\ ResponseOk(out.last) =>
                            /\ out.sent = out.notReady + 1
                            /\ out.sent <= retries
                            /\ resp'.status = 200
                            /\ resp'.call \in CallIds =>
                                 /\ resp'.call \in activeFunctionHandlers'
                                 /\ resp'.call \in greetedCalls'
                                 /\ \E h \in DOMAIN handlers' :
                                      /\ handlers'[h].call = resp'.call
                                      /\ handlers'[h].result = "pending")]_vars

\* C9, what does hold: a handshake gives up on a 404 after fewer than 3
\* requests only when the body of that 404 could not be read; when every
\* answer is a 404 whose body is read, exactly 3 requests are issued and the
\* handshake throws; a handshake never issues more than 3 requests, every
\* answer before its last one was a 404, and it is answered 200 exactly when
\* its last answer is a success.
C9_RetriesWhileBodiesAreRead ==
  [][StaysUp => (AcceptAnswered =>
                   LET out == resp'.accept[1]
                   IN  /\ out.sent \in 1 .. retries
                       /\ out.notReady \in { out.sent - 1, out.sent }
                       /\ out.notReady = out.sent <=> out.last = 404
                       /\ out.last = 404 => out.threw
                       /\ resp'.status = 200 <=> ResponseOk(out.last)
                       /\ \A responses \in ResponseSeqs :
                            /\ out = acceptCall(responses)
                            /\ out.last = 404 /\ out.sent < retries
                            => ~ responses[out.sent].body
                       /\ \A responses \in ResponseSeqs :
                            (\A k \in 1 .. retries :
                               responses[k] = [ status |-> 404, body |-> TRUE ])
                            => /\ acceptCall(responses).sent = retries
                               /\ acceptCall(responses).threw)]_vars

\* C10: when an accept handshake ends on an answer that is neither a success
\* nor a 404, that answer is the first of its kind (every earlier answer was
\* a 404), the event is answered 500, and no function stream, greeting or
\* call state is created.
C10_FatalAccept ==
  [][StaysUp => (AcceptAnswered /\ ~ ResponseOk(resp'.accept[1].last)
                                 /\ resp'.accept[1].last # 404 =>
                   /\ resp'.accept[1].sent = resp'.accept[1].notReady + 1
                   /\ resp'.status = 500
                   /\ UNCHANGED << greetedCalls, activeFunctionHandlers, callStates,
                                   greetings, handlers >>)]_vars

\* a 500 after one not-ready answer ended the handshake
C10_Witness ==
  /\ resp.kind = "incoming" /\ resp.status = 500
  /\ resp.accept[1].last = 500 /\ resp.accept[1].sent = 2
  /\ resp.call \in CallIds /\ resp.call \notin activeFunctionHandlers
  /\ resp.call \notin greetedCalls

\* C11: once the accept handshake has succeeded the incoming event is answered
\* 200 in the step that starts the two streams: the function stream it starts
\* is still connecting and unsettled, the greeting it starts has no socket
\* yet.  A 500 is only ever the answer to a handshake that threw or to a
\* body the route threw on, given in a step that touches no stream, and a
\* step in which a stream settles (with failure or success) answers nothing.
C11_AnsweredBeforeStreams ==
  [][StaysUp => (/\ AcceptAnswered /\ ~ resp'.accept[1].threw =>
                      /\ resp'.status = 200
                      /\ Len(handlers') > Len(handlers) =>
                           /\ handlers'[Len(handlers')].cur = "connecting"
                           /\ handlers'[Len(handlers')].result = "pending"
                      /\ Len(greetings') > Len(greetings) =>
                           /\ greetings'[Len(greetings')].sock = "none"
                           /\ greetings'[Len(greetings')].result = "pending"
                 /\ resp'.status = 500 =>
                      /\ \/ resp'.kind = "incoming" /\ resp'.accept[1].threw
                         \/ resp'.kind = "threw"
                      /\ UNCHANGED << handlers, greetings >>
                 /\ (\/ \E h \in DOMAIN handlers : handlers'[h].result # handlers[h].result
                     \/ \E g \in DOMAIN greetings : greetings'[g].result # greetings[g].result)
                      => resp' = NoResp)]_vars

\* the event was answered 200 while both of its streams were still to connect
C11_Witness ==
  /\ resp.kind = "incoming" /\ resp.status = 200
  /\ resp.did = { "fn", "greeting" }
  /\ handlers[Len(handlers)].cur = "connecting"
  /\ greetings[Len(greetings)].sock = "none"

\* the step handles a verified session.updated event that carries tools for callId
ToolsUpdate(callId) ==
  \E sigCase \in SigCases : WebhookSessionUpdated(callId, TRUE, sigCase)

\* a function-stream connection of callId is connecting or open
StreamActive(callId) ==
  \E h \in DOMAIN handlers :
    handlers[h].call = callId /\ LiveConnections(handlers[h]) > 0

\* C12: a session.updated event with tools for a call that has a function-
\* stream connection (connecting or open) creates no connection and leaves
\* the guard, the registry and the handlers as they are.
C12_NoSecondConnection ==
  [][StaysUp => (\A callId \in CallIds : ToolsUpdate(callId) /\ StreamActive(callId) =>
                   UNCHANGED << activeFunctionHandlers, callStates, handlers >>)]_vars

\* C12, what does hold: a session.updated event with tools for a guarded
\* callId changes nothing; for an unguarded callId it adds the callId to the
\* guard and starts one handler with one connection; after the event the
\* callId is guarded, so an immediate repetition changes nothing.
C12_GuardedUpdateIdempotent ==
  [][StaysUp => (\A callId \in CallIds : ToolsUpdate(callId) =>
                   /\ IF HandlerActive(callId)
                      THEN UNCHANGED << activeFunctionHandlers, callStates, handlers >>
                      ELSE /\ Len(handlers') = Len(handlers) + 1
                           /\ LiveConnections(handlers'[Len(handlers')]) = 1
                           /\ UNCHANGED callStates
                   /\ HandlerActive(callId)')]_vars

\* the step handles a verified terminal event
TerminalHandled == resp'.kind = "terminal"

\* what a terminal event for an absent callId has to leave alone
TerminalNoOp ==
  /\ resp'.status = 200
  /\ UNCHANGED << greetedCalls, activeFunctionHandlers, callStates >>
  /\ Len(accepts') = Len(accepts)
  /\ \A a \in DOMAIN accepts :
       accepts'[a].call = accepts[a].call /\ accepts'[a].sig = accepts[a].sig
  /\ \A h \in DOMAIN handlers :
       handlers[h].call # resp'.call => handlers'[h] = handlers[h]
  /\ \A g \in DOMAIN greetings :
       greetings[g].call # resp'.call => greetings'[g] = greetings[g]

\* C13: a terminal event for a callId that is not in the registry
\* (callStates) is answered 200 and leaves greetedCalls,
\* activeFunctionHandlers, callStates and the streams of every other call
\* unchanged.
C13_UnknownTerminalNoOp ==
  [][StaysUp => (TerminalHandled /\ resp'.call \notin DOMAIN callStates => TerminalNoOp)]_vars

\* C13, what does hold: a terminal event for a callId that is in neither
\* callStates nor greetedCalls is answered 200 and changes none of them;
\* after any terminal event the callId is in neither, so handling the same
\* event again changes nothing.
C13_UntrackedTerminalNoOp ==
  [][StaysUp => (TerminalHandled =>
                   /\ resp'.call \notin DOMAIN callStates \cup greetedCalls => TerminalNoOp
                   /\ resp'.call \notin DOMAIN callStates' \cup greetedCalls')]_vars

\* C14: a verified event whose type is none of realtime.call.incoming,
\* realtime.session.updated and the four terminal types is answered 200 and
\* changes nothing: no accept is begun, no handler or greeting is created or
\* altered, and callStates, greetedCalls and activeFunctionHandlers stay as
\* they are.
C14_UnrecognizedAcknowledged ==
  [][StaysUp => (resp'.kind = "unhandled" =>
                   /\ resp'.status = 200
                   /\ UNCHANGED << greetedCalls, activeFunctionHandlers, callStates,
                                   accepts, greetings, handlers >>)]_vars

\* an unrecognized event was acknowledged while a call had its function
\* stream and its greeting under way
C14_Witness ==
  /\ resp.kind = "unhandled" /\ resp.status = 200
  /\ activeFunctionHandlers # {} /\ greetedCalls # {}
  /\ \E h \in DOMAIN handlers : LiveConnections(handlers[h]) > 0

\* the table a lone transferCall reads its destination from
XferTable == loadTransferNumbers(xferIn.cache, xferIn.file)

\* the failure result of an unknown destination: it names the key, nothing was posted
NotFoundResult ==
  /\ ~ xferOut.result.success
  /\ xferOut.result.message
       = "Transfer destination \"" \o ToStr(xferIn.key) \o "\" not found"
  /\ xferOut.result.posts = << >>

\* C17: transferCall with a key that is not an entry of the configured
\* destinations (the table that was loaded, empty when it could not be
\* loaded) returns success false with a message naming the key and sends no
\* refer request.
C17_UnknownKeyFailsFast ==
  xferOut.done /\ ToStr(xferIn.key) \notin DOMAIN XferTable => NotFoundResult

\* C17, what does hold: the same for every key that is neither an entry of
\* the table nor the name of a property objects inherit.
C17_UninheritedKeyFailsFast ==
  xferOut.done /\ ToStr(xferIn.key) \notin DOMAIN XferTable
               /\ ToStr(xferIn.key) \notin DOMAIN ObjectPrototype
    => NotFoundResult

\* C18: transferCall reports success exactly when it sent the refer request
\* and the answer was a response with a status from 200 to 299; in every
\* other case the result has success false and a message; it sends at most
\* one refer request.
C18_SuccessIffAcknowledged ==
  xferOut.done =>
    /\ xferOut.result.success
         <=> /\ Len(xferOut.result.posts) = 1
             /\ xferIn.answer.kind = "response"
             /\ xferIn.answer.status \in 200 .. 299
    /\ ~ xferOut.result.success => xferOut.result.message # ""
    /\ Len(xferOut.result.posts) <= 1

\* a refer request for a configured destination was answered 500 with a
\* request id, and the result reports it
C18_Witness ==
  /\ xferOut.done
  /\ xferIn.key = "sales"
  /\ Len(xferOut.result.posts) = 1
  /\ ~ xferOut.result.success
  /\ xferOut.result.message
       = "Transfer error: Refer failed (500) [request-id=req_1]: SIP transfer is disabled"

\* the two messages of a reply to request req, in order
RepliedInOrder(wrote, req) ==
  /\ Len(wrote) = 2
  /\ wrote[1].type = "conversation.item.create"
  /\ wrote[1].item.type = "function_call_output"
  /\ wrote[1].item.call_id = req
  /\ wrote[2].type = "response.create"

\* the serialized results transferCall can return for destination dest
ResultsFor(callId, dest) ==
  { JsonStringify(transferCall(callId, dest,
                               [ cache |-> [ set |-> FALSE, value |-> EmptyObject ],
                                 file |-> [ readable |-> TRUE, content |-> TransferNumbers ],
                                 answer |-> answer ])) : answer \in ReferAnswers }

\* C15: for every transfer_call request read off the function stream, when
\* its handling ends while the socket that read it is still the one the
\* handler's ws variable refers to and is open, the dispatcher has written
\* exactly two messages: the function output carrying the request's
\* correlation id, then the response.create.
C15_TwoMessagesPerRequest ==
  [][StaysUp => (\A t \in DOMAIN transfers' :
                   LET was == IF t \in DOMAIN transfers THEN transfers[t].stage ELSE "reading"
                       tr == transfers'[t]
                   IN  /\ was \in { "reading", "running" }
                       /\ tr.stage \in { "done", "failed" }
                       /\ ~ tr.stale /\ handlers'[tr.h].cur = "open"
                       => RepliedInOrder(tr.wrote, tr.req))]_vars

\* C15, what does hold: when the transfer of a request returns and the socket the
\* handler's ws variable refers to is open, the dispatcher writes exactly two
\* messages, the function output with the request's correlation id and the
\* serialized transfer result first and the response.create second; when
\* that socket is not open it writes nothing.  Nothing is written before the
\* transfer returns or after it has been replied to.
C15_ReplyWhenStreamOpen ==
  [][StaysUp => (\A t \in DOMAIN transfers' :
                   LET was == IF t \in DOMAIN transfers THEN transfers[t].stage ELSE "reading"
                       tr == transfers'[t]
                   IN  /\ tr.stage \in { "reading", "running", "failed" } => tr.wrote = << >>
                       /\ was \in { "done", "failed" } =>
                            tr.stage = was /\ tr.wrote = transfers[t].wrote
                       /\ was \in { "reading", "running" } /\ tr.stage = "done" =>
                            IF handlers'[tr.h].cur = "open"
                            THEN /\ RepliedInOrder(tr.wrote, tr.req)
                                 /\ tr.wrote[1].item.output
                                      \in ResultsFor(handlers[tr.h].call, tr.dest)
                            ELSE tr.wrote = << >>)]_vars

\* a request for an unknown destination was answered on the open stream with
\* the failure result and then the continuation
C15_Witness ==
  \E t \in DOMAIN transfers :
    /\ transfers[t].stage = "done" /\ transfers[t].dest = "billing"
    /\ RepliedInOrder(transfers[t].wrote, "f1")
    /\ transfers[t].wrote[1].item.output
         = "{\"success\":false,\"message\":\"Transfer destination \\\"billing\\\" not found\"}"

RECURSIVE PostsOf(_, _)
\* refer requests sent so far for the request with correlation id req
PostsOf(req, t) ==
  IF t = 0 THEN 0
  ELSE (IF transfers[t].req = req THEN transfers[t].posts ELSE 0) + PostsOf(req, t - 1)

\* C16: for every transfer_call request of the call at most one refer
\* request has been sent, whatever disconnects and reconnects of the function
\* stream occurred.
C16_AtMostOneRefer ==
  Up =>
  (\A t \in DOMAIN transfers : PostsOf(transfers[t].req, Len(transfers)) <= 1)

\* C16, what does hold: a transfer sends at most one refer request; a step
\* starts at most one transfer, for a request that the socket reading it had
\* not read before; and no step that starts a transfer creates or opens a
\* connection, and it sets a reconnect timer only for an error read in the
\* same chunk as the request: a reconnection replays nothing.
C16_OneReferPerDelivery ==
  /\ [](Up => (\A t \in DOMAIN transfers : transfers[t].posts <= 1))
  /\ [][StaysUp => (Len(transfers') > Len(transfers) =>
                      /\ Len(transfers') = Len(transfers) + 1
                      /\ LET tr == transfers'[Len(transfers')]
                         IN  /\ MessageRead(tr.h, [ type |-> "response.function_call_arguments.done",
                                                    name |-> "transfer_call", call_id |-> tr.req,
                                                    dest |-> tr.dest ])
                             /\ ReadsOf(tr.h, IF tr.stale THEN "old" ELSE "cur", tr.req) = {}
                                \/ tr.stale
                      /\ Len(handlers') = Len(handlers)
                      /\ \A h \in DOMAIN handlers :
                           /\ LiveConnections(handlers'[h]) <= LiveConnections(handlers[h])
                           /\ handlers'[h].timers # handlers[h].timers =>
                                handlers[h].cur = "open" /\ handlers'[h].cur = "errored")]_vars

\* the greeting connection of invocation g fails in this step before it
\* opened (connection error or connection timeout)
GreetingConnectFailed(g) ==
  greetings[g].sock = "connecting" /\ greetings'[g].sock = "closed"

\* the greeting connection of invocation g fails in this step after it
\* opened and the greeting instruction was handed to it
GreetingSendFailed(g) ==
  greetings[g].sock \in { "open", "closing" } /\ greetings'[g].sock = "errored"

\* C19: when the greeting connection fails before it opened, or fails after
\* it opened and the greeting was handed to it, the callId is no longer in
\* greetedCalls and the trigger's result is false.
C19_FailureRollsBack ==
  [][StaysUp => (\A g \in DOMAIN greetings :
                   GreetingConnectFailed(g) \/ GreetingSendFailed(g) =>
                     /\ greetings[g].call \notin greetedCalls'
                     /\ greetings'[g].result = "false")]_vars

\* C19, what does hold: every failure of the greeting connection removes the
\* callId from greetedCalls, so that the next trigger for the callId passes
\* the greeted check; a failure before the connection opened makes the
\* trigger's result false.
C19_FailureClearsFlag ==
  [][StaysUp => (\A g \in DOMAIN greetings :
                   /\ GreetingConnectFailed(g) \/ GreetingSendFailed(g) =>
                        /\ greetings[g].call \notin greetedCalls'
                        /\ ~ AlreadyGreeted(greetings[g].call)'
                   /\ GreetingConnectFailed(g) => greetings'[g].result = "false")]_vars

\* C20: a callId that is in greetedCalls stays there in every step that does
\* not handle a terminal event for it.
C20_GreetedUntilTerminal ==
  [][StaysUp => (\A callId \in greetedCalls :
                   callId \in greetedCalls' \/ (TerminalHandled /\ resp'.call = callId))]_vars

\* C20, amended: a callId leaves greetedCalls only in a step that handles a
\* terminal event for it or in which a greeting connection of that callId
\* fails; it enters greetedCalls only by a trigger that found it absent,
\* which starts one greeting, and a trigger that finds it present changes
\* neither the set nor the greetings.
C20_GreetedUntilTerminalOrFailure ==
  [][StaysUp => (/\ \A callId \in greetedCalls :
                      \/ callId \in greetedCalls'
                      \/ TerminalHandled /\ resp'.call = callId
                      \/ \E g \in DOMAIN greetings :
                           /\ greetings[g].call = callId
                           /\ GreetingConnectFailed(g) \/ GreetingSendFailed(g)
                 /\ \A callId \in greetedCalls' \ greetedCalls :
                      /\ Triggers /\ resp'.call = callId
                      /\ greetings' = Append(greetings, NewGreeting(callId))
                 /\ Triggers /\ resp'.call \in greetedCalls =>
                      UNCHANGED << greetedCalls, greetings >>)]_vars

\* the greeting connection of a live, greeted call failed and its flag is
\* clear again, with no terminal event handled for the call
C20_Witness ==
  \E g \in DOMAIN greetings :
    /\ greetings[g].live /\ greetings[g].result = "false"
    /\ greetings[g].sock = "closed"
    /\ greetings[g].call \notin greetedCalls
    /\ greetings[g].call \in activeFunctionHandlers

\* the readiness a greeting socket can move to from readiness st
GreetingMoves(st) ==
  CASE st = "none" -> { "connecting" }
    [] st = "connecting" -> { "open", "closed" }
    [] st = "open" -> { "closing", "errored", "closed" }
    [] st = "closing" -> { "errored", "closed" }
    [] st = "errored" -> { "closed" }
    [] OTHER -> {}

\* C21: a greeting trigger that passed the greeted check creates one
\* connection and never a second one (its socket is created once, after the
\* delay, and once it has failed or closed nothing is created in its place);
\* the step in which the connection opens sends the one greeting instruction,
\* arms the close timer and reports success, and the close timer closes the
\* connection; a connection that fails to open makes the trigger report
\* failure; no callback of a greeting starts another greeting.
C21_SingleAttempt ==
  [][StaysUp => (/\ \A g \in DOMAIN greetings :
                      /\ greetings'[g].call = greetings[g].call
                      /\ greetings'[g].sock # greetings[g].sock =>
                           greetings'[g].sock \in GreetingMoves(greetings[g].sock)
                      /\ greetings'[g].sent
                           = IF greetings[g].sock = "connecting" /\ greetings'[g].sock = "open"
                             THEN 1 ELSE greetings[g].sent
                      /\ greetings[g].sock = "connecting" /\ greetings'[g].sock = "open" =>
                           /\ greetings[g].sent = 0
                           /\ greetings'[g].closeTimer
                           /\ greetings'[g].result = "true"
                      /\ greetings'[g].closeTimer /\ ~ greetings[g].closeTimer =>
                           greetings[g].sock = "connecting" /\ greetings'[g].sock = "open"
                      /\ greetings[g].closeTimer /\ ~ greetings'[g].closeTimer =>
                           greetings'[g].sock # "open"
                      /\ GreetingConnectFailed(g) =>
                           greetings'[g].result = "false" /\ greetings'[g].sent = 0
                 /\ Len(greetings') >= Len(greetings)
                 /\ Len(greetings') > Len(greetings) =>
                      /\ Triggers
                      /\ greetings' = Append(greetings, NewGreeting(resp'.call)))]_vars

\* a greeting connection opened, carried its one instruction and was closed
\* by the close timer; another one failed to open and reported failure
C21_Witness ==
  /\ \E g \in DOMAIN greetings :
       /\ greetings[g].sent = 1 /\ greetings[g].result = "true"
       /\ ~ greetings[g].closeTimer /\ greetings[g].sock = "closing"
  /\ \E g \in DOMAIN greetings :
       /\ greetings[g].sent = 0 /\ greetings[g].result = "false"
       /\ greetings[g].sock = "closed"

\* the subsequence of the records of s that belong to callId
OfCall(s, callId) ==
  LET Belongs(r) == r.call = callId IN SelectSeq(s, Belongs)

\* the transfers started on function streams of callId
TransfersOfCall(callId) ==
  LET Belongs(t) == handlers[t.h].call = callId IN SelectSeq(transfers, Belongs)

\* everything the server holds for callId: its membership in greetedCalls
\* and activeFunctionHandlers, its registry entry, its accept handshakes,
\* its greeting invocations and its function-stream handlers with their
\* connections, reconnect counters and timers, and its transfers
CallState(callId) ==
  << callId \in greetedCalls,
     callId \in activeFunctionHandlers,
     IF callId \in DOMAIN callStates THEN << callStates[callId] >> ELSE << >>,
     OfCall(accepts, callId),
     OfCall(greetings, callId),
     OfCall(handlers, callId),
     TransfersOfCall(callId) >>

\* the call ids whose state the step changes
TouchedCalls == { callId \in CallIdsTwo : CallState(callId)' # CallState(callId) }

\* C22: every step changes the state of at most one callId, and a step that
\* handles a webhook event changes the state of no callId other than the one
\* the event names: the events, callbacks, timers and failures of one call
\* leave every other call's flags, registry entry, connections, reconnect
\* counters and timers as they are.
C22_PerCallIsolation ==
  [][StaysUp => (/\ Cardinality(TouchedCalls) <= 1
                 /\ resp'.kind # "none" => TouchedCalls \subseteq { resp'.call })]_vars

\* the function stream of call c2 has failed and waits for its reconnect
\* timer with its counter at one, and the function stream of call c1 has
\* failed since: each call has its own counter and timer
C22_Witness ==
  \E h1, h2 \in DOMAIN handlers :
    /\ handlers[h1].call = "c1" /\ handlers[h2].call = "c2"
    /\ h2 < h1 \/ h1 < h2
    /\ handlers[h1].attempts = 1 /\ Len(handlers[h1].timers) = 1
    /\ handlers[h2].attempts = 1 /\ Len(handlers[h2].timers) = 1
    /\ { "c1", "c2" } \subseteq activeFunctionHandlers

\* C23: the step in which the accept handshake of an incoming call succeeds
\* leaves the callId in the registry (callStates), whether or not the
\* function stream has connected, and a callId that is in the registry stays
\* there in every step that does not handle a terminal event for it.
C23_RegisteredFromAccept ==
  [][StaysUp => (/\ AcceptAnswered /\ resp'.status = 200 /\ resp'.call \in CallIds =>
                      resp'.call \in DOMAIN callStates'
                 /\ \A callId \in DOMAIN callStates :
                      callId \in DOMAIN callStates' \/ (TerminalHandled /\ resp'.call = callId))]_vars

\* C23, what does hold: a callId enters the registry only in a step in which
\* one of its function-stream connections opens, which writes a fresh entry,
\* and leaves it only in a step that handles a terminal event for it.
C23_RegisteredFromOpen ==
  [][StaysUp => (/\ \A callId \in DOMAIN callStates' \ DOMAIN callStates :
                      /\ resp' = NoResp
                      /\ callStates'[callId] = FreshCallState
                      /\ \E h \in DOMAIN handlers :
                           /\ handlers[h].call = callId
                           /\ OpenConnections(handlers'[h]) = OpenConnections(handlers[h]) + 1
                 /\ \A callId \in DOMAIN callStates :
                      callId \in DOMAIN callStates' \/ (TerminalHandled /\ resp'.call = callId))]_vars

\* the call that used callId has ended and the callId has not been used by a
\* new function stream since: a terminal event was handled for every
\* function-stream handler the callId has had
CallEnded(callId) ==
  /\ \E h \in DOMAIN handlers : handlers[h].call = callId
  /\ \A h \in DOMAIN handlers : handlers[h].call = callId => handlers[h].ended

\* the step accepts an incoming call that reuses the callId of an ended
\* call: its incoming event arrived after the terminal event was handled
ReuseAccepted(callId) ==
  /\ AcceptAnswered /\ resp'.status = 200 /\ resp'.call = callId
  /\ CallEnded(callId)
  /\ \E a \in DOMAIN accepts :
       /\ accepts' = RemoveAt(accepts, a)
       /\ accepts[a].call = callId /\ ~ accepts[a].ended

\* C24: when an incoming call reuses the callId of an ended call, the step
\* that accepts it starts a greeting and a function stream of its own for
\* the new call, and the registry holds nothing of the ended session.
C24_ReuseStartsFresh ==
  [][StaysUp => (\A callId \in CallIds : ReuseAccepted(callId) =>
                   /\ resp'.did = { "fn", "greeting" }
                   /\ Len(handlers') = Len(handlers) + 1
                   /\ ~ handlers'[Len(handlers')].ended
                   /\ callId \notin DOMAIN callStates')]_vars

\* C24, what does hold: the terminal event clears the greeted flag and the
\* registry entry of the callId; the new call is greeted exactly when the
\* flag is still clear when its accept succeeds, and it gets a function
\* stream of its own exactly when the handler of the ended call has settled
\* (the callId has left the guard); otherwise it is left with the ended
\* call's handler and its connections.
C24_ReuseSharesHandler ==
  [][StaysUp => (/\ TerminalHandled =>
                      resp'.call \notin greetedCalls' /\ resp'.call \notin DOMAIN callStates'
                 /\ \A callId \in CallIds : ReuseAccepted(callId) =>
                      /\ "greeting" \in resp'.did <=> ~ AlreadyGreeted(callId)
                      /\ "fn" \in resp'.did <=> ~ HandlerActive(callId)
                      /\ HandlerActive(callId) => UNCHANGED handlers)]_vars

\* C25: every request whose body is JSON is answered once: a request other
\* than call.incoming in the step that receives it, a call.incoming request
\* in the step in which its accept handshake settles, and no step answers
\* anything else.  The status is 401 exactly when the signature is not
\* valid, 500 exactly when the event is call.incoming and the accept
\* handshake failed, and 200 in every other case.
C25_OneResponsePerRequest ==
  [][StaysUp => (/\ resp'.kind = "accepting" <=> Len(accepts') = Len(accepts) + 1
                 /\ resp'.kind = "incoming" <=> Len(accepts') = Len(accepts) - 1
                 /\ resp'.kind = "accepting" => resp'.status = 0 /\ resp'.sig = "signed"
                 /\ Received => envCount' = envCount + 1
                 /\ (Received /\ resp'.kind \notin { "accepting", "malformed" })
                      \/ AcceptAnswered =>
                      resp'.status
                        = IF resp'.sig # "signed" THEN 401
                          ELSE IF resp'.kind = "incoming" /\ resp'.accept[1].threw THEN 500
                          ELSE 200
                 /\ ~ (Received \/ AcceptAnswered) => Len(accepts') = Len(accepts))]_vars

\* C25, what does hold: a request whose body is an object with a string
\* type and a data object is answered once, 401 exactly when its signature
\* is not valid, 500 exactly when it is a call.incoming whose accept
\* handshake failed, and 200 otherwise; a body that is no JSON is answered
\* 400, and a validly signed body the route throws on is answered 500 or
\* not at all.
C25_WellFormedAnswered ==
  [][StaysUp => (/\ resp'.kind = "accepting" <=> Len(accepts') = Len(accepts) + 1
                 /\ resp'.kind = "incoming" <=> Len(accepts') = Len(accepts) - 1
                 /\ resp'.kind = "accepting" => resp'.status = 0 /\ resp'.sig = "signed"
                 /\ Received => envCount' = envCount + 1
                 /\ (Received /\ resp'.kind # "accepting") \/ AcceptAnswered =>
                      resp'.status
                        = IF resp'.kind = "malformed" THEN 400
                          ELSE IF resp'.kind = "threw" THEN 500
                          ELSE IF resp'.sig # "signed" THEN 401
                          ELSE IF resp'.kind = "incoming" /\ resp'.accept[1].threw THEN 500
                          ELSE 200
                 /\ resp'.kind = "threw" => resp'.sig = "signed"
                 /\ ~ (Received \/ AcceptAnswered) => Len(accepts') = Len(accepts))]_vars

\* an incoming event was answered 500 after its accept request had been
\* rejected, while an earlier event of the same call had been answered 200
C25_Witness ==
  /\ resp.kind = "incoming" /\ resp.status = 500 /\ resp.sig = "signed"
  /\ resp.accept[1].threw /\ resp.accept[1].last = 0
  /\ resp.call \in activeFunctionHandlers

\* the time an accept handshake spent in its 500 ms waits
WaitedMs(out) == out.waits * AcceptRetryDelayMs

\* C26: an accept handshake that gives up on not-ready answers has made
\* exactly 3 attempts, each of them preceded by a 500 ms wait; when the first
\* two attempts are answered not-ready and the third succeeds, each of the 3
\* attempts was preceded by a wait and the event is answered 200 with the
\* call's streams started.
C26_WaitBeforeEveryAttempt ==
  [][StaysUp => (AcceptAnswered =>
                   LET out == resp'.accept[1]
                   IN  /\ out.last = 404 =>
                            out.sent = retries /\ WaitedMs(out) = out.sent * AcceptRetryDelayMs
                       /\ out.notReady = 2 /\ ResponseOk(out.last) =>
                            /\ out.sent = retries
                            /\ WaitedMs(out) = out.sent * AcceptRetryDelayMs
                            /\ resp'.status = 200)]_vars

\* C26, what does hold: an accept handshake that gives up after three
\* not-ready answers has made exactly 3 attempts and waited 500 ms before the
\* second and before the third, 1000 ms in all, and the event is answered
\* 500; every handshake has waited 500 ms once per attempt after the first,
\* never before the first attempt; when the first two attempts are answered
\* not-ready and the third succeeds, the handshake has made 3 attempts and 2
\* waits, the event is answered 200 and the call's function stream and
\* greeting are started.
C26_WaitBeforeEveryRetry ==
  [][StaysUp => (AcceptAnswered =>
                   LET out == resp'.accept[1]
                   IN  /\ WaitedMs(out) = (out.sent - 1) * AcceptRetryDelayMs
                       /\ out.sent \in 1 .. retries
                       /\ out.notReady = retries =>
                            /\ out.sent = retries /\ WaitedMs(out) = 1000
                            /\ out.threw /\ resp'.status = 500
                       /\ out.notReady = 2 /\ ResponseOk(out.last) =>
                            /\ out.sent = retries /\ WaitedMs(out) = 1000
                            /\ resp'.status = 200
                            /\ resp'.call \in CallIds =>
                                 /\ resp'.call \in activeFunctionHandlers'
                                 /\ resp'.call \in greetedCalls')]_vars

\* the delays of the reconnections a handler schedules while its counter
\* goes from `from` to `to`, added to the pending timers
RECURSIVE Scheduled(_, _, _)
Scheduled(timers, from, to) ==
  IF from >= to THEN timers
  ELSE Scheduled(InsertSorted(timers, BackoffMs(from + 1)), from + 1, to)

\* C27: the k-th consecutive reconnection is delayed by
\* min(1000 * 2^(k-1), 5000) ms, that is 1000, 2000 and 4000 ms for
\* k = 1, 2, 3; and the failure of a connection schedules exactly one
\* reconnection: no step adds more than one timer to a handler, and the
\* timer it adds has the delay of the next position in the sequence.
C27_OneReconnectPerFailure ==
  [][StaysUp => (\A h \in DOMAIN handlers :
                   /\ \A k \in DOMAIN handlers'[h].timers :
                        handlers'[h].timers[k] \in { 1000, 2000, 4000 }
                   /\ Len(handlers'[h].timers) <= Len(handlers[h].timers) + 1
                   /\ Len(handlers'[h].timers) = Len(handlers[h].timers) + 1 =>
                        /\ handlers'[h].attempts = handlers[h].attempts + 1
                        /\ handlers'[h].timers
                             = InsertSorted(handlers[h].timers,
                                            BackoffMs(handlers[h].attempts + 1)))]_vars

\* C27, what does hold: the delay computed for the k-th consecutive attempt
\* is 1000, 2000, 4000 ms for k = 1, 2, 3, double the one before and never
\* above 5000 ms; every timer a handler schedules raises reconnectAttempts by
\* one and carries the delay of the counter's new value; only the firing of
\* a timer removes it.
C27_DelayFollowsCounter ==
  /\ BackoffMs(1) = 1000 /\ BackoffMs(2) = 2000 /\ BackoffMs(3) = 4000
  /\ \A k \in 1 .. maxReconnectAttempts + 2 : BackoffMs(k) <= BackoffCapMs
  /\ \A k \in 2 .. maxReconnectAttempts : BackoffMs(k) = 2 * BackoffMs(k - 1)
  /\ [][StaysUp => (\A h \in DOMAIN handlers :
                      \/ handlers'[h].timers = handlers[h].timers
                      \/ /\ Len(handlers'[h].timers) > Len(handlers[h].timers)
                         /\ handlers'[h].timers
                              = Scheduled(handlers[h].timers, handlers[h].attempts,
                                          handlers'[h].attempts)
                      \/ /\ \E k \in DOMAIN handlers[h].timers :
                              handlers'[h].timers = RemoveAt(handlers[h].timers, k)
                         /\ LiveConnections(handlers'[h]) > 0)]_vars

\* the step is the arrival of a message on the socket the ws variable of
\* handler h refers to
MessageArrives(h) ==
  /\ MessageStep
  /\ \E st \in { "open", "closing" }, ev \in MessageEvents :
       \E after \in AfterChunk(st) :
         FnMessage(h, "cur", st, ev, after)

\* transfers whose request was read on the socket the ws variable of handler
\* h still refers to and that have not returned: the processing of their
\* event on that connection is not complete
Unreplied(h) ==
  { t \in DOMAIN transfers :
      transfers[t].h = h /\ InFlight(t) /\ ~ transfers[t].stale }

\* C28: the processing of a message received on a function-stream connection
\* begins only when the processing of every earlier message of that
\* connection is complete: no message is processed on a connection while a
\* transfer requested on it has not returned and been replied to.
C28_OneEventAtATime ==
  [][StaysUp => (\A h \in DOMAIN handlers : MessageArrives(h) => Unreplied(h) = {})]_vars

\* C28, what does hold: the listeners of the messages of a connection are
\* started in arrival order and each runs without interruption up to its
\* first await that leaves the turn; a message that requests no transfer is
\* processed to completion in the step that receives it, and the reply to a
\* transfer is written in one piece when the transfer returns.
C28_StartedInArrivalOrder ==
  [][StaysUp => (/\ \A h \in DOMAIN handlers, ev \in MessageEvents : MessageRead(h, ev) =>
                      /\ \A t \in DOMAIN transfers : Untouched(t)
                      /\ ~ IsTransferRequest(ev) => transfers' = transfers
                 /\ \A t \in DOMAIN transfers' :
                      (t \in DOMAIN transfers => transfers'[t].wrote # transfers[t].wrote) =>
                        \/ transfers'[t].wrote = << >>
                        \/ /\ t \in DOMAIN transfers => InFlight(t)
                           /\ transfers'[t].stage = "done"
                           /\ Len(transfers'[t].wrote) = 2
                           /\ \A u \in DOMAIN transfers \ { t } : Untouched(u))]_vars

\* transfer t returns in this step and its reply is written
ReplyWritten(t) ==
  /\ InFlight(t) /\ transfers'[t].stage = "done"
  /\ transfers'[t].wrote # << >>

\* C29: the reply to a transfer is written only to the connection that
\* delivered its request, never to a connection that a later connect()
\* created, and never once a terminal event has been handled for the call.
C29_ReplyOnlyToSameConnection ==
  [][StaysUp => (\A t \in DOMAIN transfers : ReplyWritten(t) =>
                   /\ ~ transfers[t].stale
                   /\ ~ handlers[transfers[t].h].ended)]_vars

\* C29, what does hold: a transfer in flight is not aborted when the stream
\* drops, a reconnection starts or the call ends: it stays in flight until it
\* returns, its refer request is sent whatever has happened to the stream,
\* and its result is discarded when the socket the handler's ws variable
\* refers to is not open at that moment.
C29_InFlightNotAborted ==
  [][StaysUp => (\A t \in DOMAIN transfers : InFlight(t) =>
                   /\ transfers'[t].stage = transfers[t].stage =>
                        [ transfers'[t] EXCEPT !.stale = FALSE, !.copies = 0 ]
                          = [ transfers[t] EXCEPT !.stale = FALSE, !.copies = 0 ]
                   /\ transfers'[t].stage \in { "reading", "running", "done" }
                   /\ transfers'[t].stage = "reading" => transfers[t].stage = "reading"
                   /\ transfers'[t].stage # "reading" =>
                        transfers'[t].posts
                          = IF transfers[t].dest \in DOMAIN TransferNumbers THEN 1 ELSE 0
                   /\ transfers'[t].stage = "done" /\ handlers[transfers[t].h].cur # "open" =>
                        transfers'[t].wrote = << >>)]_vars

\* input the message handler does not recognize: data that is no JSON, an
\* event type it has no branch for, a function it does not know, and a
\* transfer_call request whose arguments are no JSON
UnrecognizedEvents ==
  { ev \in MessageEvents :
      \/ ev.type \in { Malformed, "session.created" }
      \/ ev.type = "response.function_call_arguments.done"
           /\ (ev.name # "transfer_call" \/ ev.dest = Malformed) }

\* C30: a message the handler does not recognize (no JSON, unknown type,
\* unknown function, transfer_call with unparseable arguments) starts no
\* transfer and sends no refer request, writes nothing, closes no socket,
\* schedules no reconnection and leaves the guard alone; every socket that
\* was listening is still open and listening afterwards.
C30_UnrecognizedInputNonFatal ==
  [][StaysUp => (\A h \in DOMAIN handlers : \A ev \in UnrecognizedEvents : MessageRead(h, ev) =>
                   /\ UNCHANGED << handlers, activeFunctionHandlers, greetedCalls, greetings,
                                   accepts, caches >>
                   /\ Listening(handlers[h].call)' = Listening(handlers[h].call)
                   /\ h \in Listening(handlers[h].call)
                   /\ \A t \in DOMAIN transfers : Untouched(t)
                   /\ \A t \in DOMAIN transfers' \ DOMAIN transfers :
                        /\ transfers'[t].stage = "failed"
                        /\ transfers'[t].posts = 0 /\ transfers'[t].wrote = << >>
                   /\ DOMAIN callStates' = DOMAIN callStates)]_vars

\* a connection read a transfer_call request with unparseable arguments and
\* afterwards a valid one, which was executed and replied to on the same
\* connection; nothing else happened to the call
C30_Witness ==
  /\ envCount = 3 /\ Len(handlers) = 1 /\ Len(transfers) = 2
  /\ handlers[1].cur = "open" /\ handlers[1].timers = << >>
  /\ handlers[1].attempts = 0 /\ handlers[1].result = "pending"
  /\ transfers[1].stage = "failed" /\ transfers[1].posts = 0
  /\ transfers[2].stage = "done" /\ transfers[2].posts = 1
  /\ ~ transfers[2].stale
  /\ RepliedInOrder(transfers[2].wrote, "f1")
  /\ callStates[handlers[1].call].messageCount = 2

\* a function-stream connection of handler h reaches Open in this step
ReachesOpen(h) == OpenConnections(handlers'[h]) > OpenConnections(handlers[h])

\* C31: reconnectAttempts of every function stream is between 0 and
\* maxReconnectAttempts (3), it starts at 0, it is 0 after every step in
\* which a connection of the stream reaches Open, it never goes down
\* otherwise, and when it goes up it goes up by the number of reconnections
\* the step schedules: by one per scheduled reconnection.
C31_CounterBoundedAndReset ==
  [][StaysUp => (/\ \A h \in DOMAIN handlers' :
                      handlers'[h].attempts \in 0 .. maxReconnectAttempts
                 /\ \A h \in DOMAIN handlers' \ DOMAIN handlers :
                      handlers'[h].attempts = 0 /\ handlers'[h].timers = << >>
                 /\ \A h \in DOMAIN handlers :
                      /\ ReachesOpen(h) => handlers'[h].attempts = 0
                      /\ handlers'[h].attempts < handlers[h].attempts => ReachesOpen(h)
                      /\ handlers'[h].attempts > handlers[h].attempts =>
                           handlers'[h].attempts - handlers[h].attempts
                             = Len(handlers'[h].timers) - Len(handlers[h].timers)
                      /\ Len(handlers'[h].timers) > Len(handlers[h].timers) =>
                           handlers'[h].attempts - handlers[h].attempts
                             = Len(handlers'[h].timers) - Len(handlers[h].timers))]_vars

\* a stream whose first connection failed has reconnected and reached Open:
\* its counter is back at 0 while a reconnection scheduled by that failure is
\* still pending
C31_Witness ==
  \E h \in DOMAIN handlers :
    /\ handlers[h].cur = "open" /\ handlers[h].attempts = 0
    /\ handlers[h].timers # << >> /\ handlers[h].result = "pending"

\* the connection timer that connect() armed for the socket ws refers to
\* fires in this step while that socket is still connecting
OwnTimeoutExpires(h) ==
  /\ handlers[h].cur = "connecting"
  /\ FnConnTimeout(h, FALSE)

\* C32: when the connection timer of a function-stream connection that has
\* not reached Open expires, the connection is closed and the expiry is one
\* failed attempt: below the attempt limit the counter rises by one and
\* exactly one reconnection is scheduled, at the limit the stream ends with
\* failure; and the connection timer the variable refers to never closes a
\* connection that has reached Open.
C32_TimeoutIsOneFailure ==
  [][StaysUp => (\A h \in DOMAIN handlers :
                   /\ OwnTimeoutExpires(h) =>
                        /\ handlers'[h].cur = "closed"
                        /\ IF CanReconnect(handlers[h].attempts)
                           THEN /\ handlers'[h].attempts = handlers[h].attempts + 1
                                /\ Len(handlers'[h].timers) = Len(handlers[h].timers) + 1
                                /\ handlers'[h].result = handlers[h].result
                           ELSE /\ handlers'[h].timers = handlers[h].timers
                                /\ handlers'[h].result # "pending"
                   /\ FnConnTimeout(h, FALSE) /\ handlers[h].cur = "open" =>
                        handlers'[h].cur = "open")]_vars

\* C32, what does hold: the expiry closes the connecting socket, which then
\* runs the error callback and the close callback as any failed connection
\* attempt does, so it is counted and rescheduled by the same code; and the
\* timer the variable connectionTimeout refers to is pending only while the
\* socket ws refers to is connecting.
C32_TimeoutRunsFailureCallbacks ==
  [][StaysUp => (\A h \in DOMAIN handlers :
                   /\ OwnTimeoutExpires(h) =>
                        handlers'[h]
                          = onClose(onError([ handlers[h] EXCEPT !.cur = "closed", !.ct = FALSE ]),
                                    AbnormalClosure)
                   /\ handlers'[h].ct => handlers'[h].cur = "connecting")]_vars

\* what belongs to the greeting stream and what to the function stream
GreetingState == << greetedCalls, greetings >>

FunctionState == << activeFunctionHandlers, handlers, callStates, transfers >>

\* the step is a callback of a socket or a timer, not the handling of a request
CallbackStep == resp'.kind = "none"

\* C33: the greeting stream and the function stream of a call are
\* independent.  No callback step (delay, connect, open, error, timeout, close,
\* message, reconnection, heartbeat, transfer) changes both the greeting
\* state (greeted flag, greeting connections) and the function-stream state
\* (guard, connections, counters, registry, transfers): a greeting step leaves
\* the function stream alone and a function-stream step leaves the greeting
\* alone.  Where both are set up, after the accept, each is started or
\* skipped on its own flag only: the greeting by the greeted flag whatever
\* the guard holds, the function stream by the guard whatever the greeted
\* flag holds; a session.updated event touches the function stream only.
C33_StreamsIndependent ==
  [][StaysUp => (/\ CallbackStep =>
                      UNCHANGED GreetingState \/ UNCHANGED FunctionState
                 /\ Triggers /\ resp'.call \in CallIds =>
                      /\ IF resp'.call \in greetedCalls
                         THEN UNCHANGED GreetingState
                         ELSE /\ greetedCalls' = greetedCalls \cup { resp'.call }
                              /\ greetings' = Append(greetings, NewGreeting(resp'.call))
                      /\ IF resp'.call \in activeFunctionHandlers
                         THEN UNCHANGED << activeFunctionHandlers, handlers >>
                         ELSE /\ activeFunctionHandlers' = activeFunctionHandlers \cup { resp'.call }
                              /\ handlers' = Append(handlers, NewHandler(resp'.call))
                 /\ Received /\ resp'.kind = "updated" => UNCHANGED GreetingState)]_vars

\* the greeting connection of a call has failed and its flag is rolled back,
\* while the call's function stream is open and guarded, its counter at 0 and
\* no reconnection pending
C33_Witness ==
  \E g \in DOMAIN greetings, h \in DOMAIN handlers :
    /\ greetings[g].call = handlers[h].call
    /\ greetings[g].result = "false" /\ greetings[g].sock = "closed"
    /\ greetings[g].call \notin greetedCalls
    /\ handlers[h].cur = "open" /\ handlers[h].attempts = 0
    /\ handlers[h].timers = << >> /\ handlers[h].result = "pending"
    /\ handlers[h].call \in activeFunctionHandlers

\* the step is the handling of POST /admin/refresh-cache
Refreshed == resp'.kind = "refresh"

\* the number of refer requests a transfer to dest sends when the table of
\* destinations it looks dest up in is `table`
PostsWith(table, dest) == IF GetProperty(table, dest).truthy THEN 1 ELSE 0

\* the step completes a readFile of the configuration `name`, begun by an
\* invocation that found the cache empty
ReadCompletes(name) ==
  \/ /\ resp'.kind = "none" /\ Len(accepts') = Len(accepts)
     /\ \E a \in DOMAIN accepts :
          /\ accepts[a].reading[name] > 0
          /\ accepts'[a].reading = [ accepts[a].reading EXCEPT ![name] = @ - 1 ]
  \/ /\ name = "transferNumbers"
     /\ \E t \in DOMAIN transfers :
          transfers[t].stage = "reading" /\ transfers'[t].stage # "reading"

\* C34: no step but a cache refresh empties a cache that is set, so no
\* webhook event and no stream event clears one, and a cache changes only in
\* a refresh and when a read completes that was begun while it was empty; a
\* transfer request read while the table of destinations is cached is looked
\* up in the cached table at once, whatever the file holds by then, and one
\* read while the table is not cached waits for the file to be read; a read
\* that fails leaves the cache as it was (the transfer finds no destination
\* and the next lookup reads again), a read that succeeds caches what it
\* read and the transfer is looked up in that; handling an incoming call
\* starts the read of every cache that is empty and of no other; a cache
\* refresh empties the four caches, and a second refresh changes nothing.
C34_CacheIndependentOfCalls ==
  [][StaysUp => (/\ \A n \in ConfigNames :
                      /\ caches[n].set /\ ~ caches'[n].set => Refreshed
                      /\ caches'[n] # caches[n] => Refreshed \/ ReadCompletes(n)
                      /\ ReadCompletes(n) =>
                           caches'[n] = IF configFiles[n].readable
                                        THEN [ set |-> TRUE, value |-> configFiles[n].content ]
                                        ELSE caches[n]
                 /\ \A t \in DOMAIN transfers' \ DOMAIN transfers :
                      transfers'[t].stage # "failed" =>
                        LET cache == caches["transferNumbers"]
                        IN  IF cache.set
                            THEN /\ transfers'[t].stage # "reading"
                                 /\ transfers'[t].posts
                                      = PostsWith(cache.value, transfers'[t].dest)
                            ELSE /\ transfers'[t].stage = "reading"
                                 /\ transfers'[t].posts = 0
                 /\ \A t \in DOMAIN transfers :
                      transfers[t].stage = "reading" /\ transfers'[t].stage # "reading" =>
                        LET file == configFiles["transferNumbers"]
                        IN  transfers'[t].posts
                              = IF file.readable
                                THEN PostsWith(file.content, transfers[t].dest)
                                ELSE 0
                 /\ resp'.kind = "accepting" =>
                      /\ UNCHANGED caches
                      /\ \A n \in ConfigNames :
                           accepts'[Len(accepts')].reading[n] > 0 <=> ~ caches[n].set
                 /\ Refreshed =>
                      /\ \A n \in ConfigNames : caches'[n] = NoCache(n)
                      /\ clearCache(caches') = caches'
                      /\ resp.kind = "refresh" => UNCHANGED caches)]_vars

\* an incoming call loaded the caches, a refresh emptied them, and a
\* transfer request read after it had the table of destinations read again:
\* the table is cached once more and the other three caches are still empty
C34_Witness ==
  /\ greetedCalls # {}
  /\ \A n \in ConfigNames : caches[n].set <=> n = "transferNumbers"
  /\ caches["transferNumbers"].value = TransferNumbers
  /\ \E t \in DOMAIN transfers :
       transfers[t].stage = "running" /\ transfers[t].dest = "sales"

RECURSIVE ConnectionsOf(_, _)
\* function-stream connections of callId that are connecting or open, over
\* handlers 1 .. h
ConnectionsOf(callId, h) ==
  IF h = 0 THEN 0
  ELSE (IF handlers[h].call = callId THEN LiveConnections(handlers[h]) ELSE 0)
       + ConnectionsOf(callId, h - 1)

RECURSIVE ReconnectTimersOf(_, _)
\* pending reconnect timers of callId, over handlers 1 .. h
ReconnectTimersOf(callId, h) ==
  IF h = 0 THEN 0
  ELSE (IF handlers[h].call = callId THEN Len(handlers[h].timers) ELSE 0)
       + ReconnectTimersOf(callId, h - 1)

\* C35: every callId has at most one function-stream connection that is
\* connecting or open and at most one pending reconnect timer, in every
\* reachable state.
C35_OneConnectionOneTimer ==
  Up =>
  (\A callId \in CallIds :
     /\ ConnectionsOf(callId, Len(handlers)) <= 1
     /\ ReconnectTimersOf(callId, Len(handlers)) <= 1)

\* C35, what does hold: a socket that closes without an error callback (a
\* close of an established connection) schedules at most one reconnection,
\* and no step schedules more than two.
C35_AtMostTwoPerFailure ==
  [][StaysUp => (\A h \in DOMAIN handlers :
                   /\ Len(handlers'[h].timers) <= Len(handlers[h].timers) + 2
                   /\ (\E which \in Whiches, st \in LiveStates,
                          code \in { NormalClosure, AbnormalClosure } : FnClose(h, which, st, code))
                        => Len(handlers'[h].timers) <= Len(handlers[h].timers) + 1)]_vars

\* handler record hr holds a resource of a function stream: a connection
\* that is connecting or open, a pending reconnect timer or a running
\* heartbeat timer
HoldsResource(hr) ==
  \/ LiveConnections(hr) > 0
  \/ hr.timers # << >>
  \/ hr.hb \/ hr.hbStale > 0

\* C36: a callId whose function stream holds a connection, a reconnect timer
\* or a heartbeat timer is in activeFunctionHandlers; and a handler that has
\* resolved, whose guard entry is therefore removed, holds none of them.
C36_GuardCoversResources ==
  Up =>
  (\A h \in DOMAIN handlers :
     /\ HoldsResource(handlers[h]) => handlers[h].call \in activeFunctionHandlers
     /\ handlers[h].result # "pending" => ~ HoldsResource(handlers[h]))

\* C36, what does hold: the guard entry of a callId is held exactly while a
\* handleFunctionCalls promise of the callId is unsettled.
C36_GuardIffUnsettled ==
  Up =>
  (\A callId \in CallIds :
     callId \in activeFunctionHandlers <=> UnfinishedHandlers(callId) # {})

\* greeting invocations of callId, started since the last terminal event for
\* it, that have sent their greeting instruction
SentGreetings(callId) ==
  { g \in DOMAIN greetings :
      greetings[g].call = callId /\ greetings[g].live /\ greetings[g].sent > 0 }

\* the greeted flag of callId is rolled back in this step: it is cleared by
\* a callback of a greeting connection, not by a terminal event
RolledBack(callId) ==
  /\ callId \in greetedCalls /\ callId \notin greetedCalls'
  /\ ~ (resp'.kind = "terminal" /\ resp'.call = callId)

\* C37: for a live call at most one greeting instruction is sent, and the
\* greeted flag is rolled back only while no greeting instruction of the call
\* has been sent.
C37_GreetingSentOnce ==
  [][StaysUp => (\A callId \in CallIds :
                   /\ Cardinality(SentGreetings(callId)') <= 1
                   /\ RolledBack(callId) => SentGreetings(callId) = {})]_vars

\* C37, what does hold: one trigger sends at most one instruction, it sends
\* it in the step in which its connection opens, and a rollback that follows
\* no send (connection error or timeout before the connection opened) leaves
\* the call without a greeting sent by that trigger.
C37_OncePerTrigger ==
  [][StaysUp => (\A g \in DOMAIN greetings :
                   /\ greetings'[g].sent <= 1
                   /\ greetings'[g].sent >= greetings[g].sent
                   /\ greetings'[g].sent > greetings[g].sent =>
                        greetings[g].sock = "connecting" /\ greetings'[g].sock = "open"
                   /\ GreetingConnectFailed(g) => greetings'[g].sent = 0)]_vars

\* the step completes accept handshake a, during which a terminal event for
\* its call was handled
EndedAcceptCompletes(a) ==
  /\ accepts[a].ended
  /\ AcceptAnswered /\ resp'.call = accepts[a].call
  /\ accepts' = RemoveAt(accepts, a)

\* C38: when the accept handshake of a call completes after a terminal event
\* for the call was handled, the completion leaves nothing of the call
\* behind: it starts no greeting and no function stream, and adds the callId
\* to none of greetedCalls, activeFunctionHandlers and callStates.
C38_EndedCallLeavesNothing ==
  [][StaysUp => (\A a \in DOMAIN accepts :
                   EndedAcceptCompletes(a) /\ accepts[a].call \in CallIds =>
                     /\ resp'.did = {}
                     /\ Len(greetings') = Len(greetings) /\ Len(handlers') = Len(handlers)
                     /\ greetedCalls' \subseteq greetedCalls
                     /\ activeFunctionHandlers' \subseteq activeFunctionHandlers
                     /\ DOMAIN callStates' \subseteq DOMAIN callStates)]_vars

\* C38, what does hold: a handshake that fails after the terminal event
\* (the event is answered 500) leaves the call's state as the terminal event
\* left it, and the terminal event itself removes the greeted flag and the
\* registry entry whether or not a handshake is in flight.
C38_FailedAcceptLeavesNothing ==
  [][StaysUp => (/\ \A a \in DOMAIN accepts :
                      EndedAcceptCompletes(a) /\ resp'.status = 500 =>
                        UNCHANGED << greetedCalls, activeFunctionHandlers, callStates,
                                     greetings, handlers >>
                 /\ TerminalHandled =>
                      resp'.call \notin greetedCalls' /\ resp'.call \notin DOMAIN callStates')]_vars

\* the step starts a function stream, or a greeting, for callId
StartsStream(callId) ==
  /\ Len(handlers') > Len(handlers)
  /\ handlers'[Len(handlers')].call = callId

StartsGreeting(callId) ==
  /\ Len(greetings') > Len(greetings)
  /\ greetings'[Len(greetings')].call = callId

\* the accept handshake of callId has succeeded and no terminal event for
\* the callId has been handled since: a greeting trigger of the call has
\* passed the greeted check since the last terminal event
AcceptedAndLive(callId) ==
  \E g \in DOMAIN greetings : greetings[g].call = callId /\ greetings[g].live

\* the step is the success of an accept handshake of callId during which no
\* terminal event for the callId was handled
LiveAcceptSucceeds(callId) ==
  /\ AcceptAnswered /\ resp'.status = 200 /\ resp'.call = callId
  /\ \E a \in DOMAIN accepts :
       /\ accepts' = RemoveAt(accepts, a)
       /\ accepts[a].call = callId /\ ~ accepts[a].ended

\* C39: a function stream or a greeting is started, and a callId is added to
\* the guard, only for a callId whose accept handshake has succeeded (in this
\* step or before) with no terminal event handled for it since; a
\* session.updated event for any other callId changes nothing.
C39_StartedOnlyForLiveCalls ==
  [][StaysUp => (\A callId \in CallIds :
                   /\ ( \/ StartsStream(callId) \/ StartsGreeting(callId)
                        \/ callId \in activeFunctionHandlers' \ activeFunctionHandlers )
                        => LiveAcceptSucceeds(callId) \/ AcceptedAndLive(callId)
                   /\ resp'.kind = "updated" /\ resp'.call = callId /\ ~ AcceptedAndLive(callId)
                        => UNCHANGED callVars)]_vars

\* C39, what does hold: a greeting is started only by the success of an
\* accept handshake, a function stream only by that or by a session.updated
\* event that carries tools, each for the callId of its own event, and a
\* session.updated event without tools starts nothing.
C39_StartedOnlyByRequests ==
  [][StaysUp => (\A callId \in CallIds :
                   /\ StartsGreeting(callId) =>
                        AcceptAnswered /\ resp'.status = 200 /\ resp'.call = callId
                   /\ StartsStream(callId) =>
                        /\ resp'.call = callId
                        /\ (AcceptAnswered /\ resp'.status = 200) \/ resp'.kind = "updated"
                        /\ "fn" \in resp'.did)]_vars

\* the events that report the arguments of a function call as complete
FunctionCallEvents ==
  { ev \in MessageEvents : ev.type = "response.function_call_arguments.done" }

\* the handling of function-call event ev begins in this step on an open
\* socket and is on its way to an answer: it has started the function
\* under the event's correlation id
HandlingStarted(ev) ==
  \E t \in DOMAIN transfers' \ DOMAIN transfers :
    transfers'[t].req = ev.call_id /\ transfers'[t].stage # "failed"

\* the step is an open socket of handler h reading ev
ReadOnOpen(h, ev) ==
  /\ MessageStep
  /\ \E which \in Whiches, after \in AfterChunk("open") :
       FnMessage(h, which, "open", ev, after)

\* transfer t returns in this step while the connection that read its
\* request is still the open one
ReturnsOnOpenConnection(t) ==
  /\ InFlight(t) /\ transfers'[t].stage = "done"
  /\ ~ transfers[t].stale /\ handlers[transfers[t].h].cur = "open"

\* wrote begins with a function-output item that carries correlation id req
AnsweredWith(wrote, req) ==
  /\ Len(wrote) >= 1
  /\ wrote[1].type = "conversation.item.create"
  /\ wrote[1].item.type = "function_call_output"
  /\ wrote[1].item.call_id = req

\* C40: every function-call event read on an open function stream, whatever
\* its function name and arguments, starts a handling that ends with a
\* function-output item carrying the event's correlation id: the event
\* starts the function, and when the function returns while the connection
\* is still open the item is written.
C40_EveryFunctionCallAnswered ==
  [][StaysUp => (/\ \A h \in DOMAIN handlers : \A ev \in FunctionCallEvents :
                      ReadOnOpen(h, ev) => HandlingStarted(ev)
                 /\ \A t \in DOMAIN transfers :
                      ReturnsOnOpenConnection(t) =>
                        AnsweredWith(transfers'[t].wrote, transfers[t].req))]_vars

\* C40, what does hold: a transfer_call event whose arguments parse is
\* answered with a function-output item carrying its correlation id when the
\* transfer returns on the open connection, whatever the destination and the
\* outcome of the transfer; an event that names another function, or whose
\* arguments do not parse, is never answered.
C40_TransferCallsAnswered ==
  [][StaysUp => (/\ \A h \in DOMAIN handlers : \A ev \in FunctionCallEvents :
                      ReadOnOpen(h, ev) =>
                        ( HandlingStarted(ev) <=> IsTransferRequest(ev) /\ ParsedArgs(ev) )
                 /\ \A t \in DOMAIN transfers :
                      /\ ReturnsOnOpenConnection(t) =>
                           AnsweredWith(transfers'[t].wrote, transfers[t].req)
                      /\ transfers[t].stage = "failed" =>
                           transfers'[t].stage = "failed" /\ transfers'[t].wrote = << >>)]_vars

====
